---- MODULE Spec2Model ----
(***************************************************************************)
(* The rig-listener bridge of openhamclock (rig-listener/rig-listener.js): *)
(* the per-vendor CAT / CI-V codecs, the RadioState store with its SSE     *)
(* broadcast, the serial open / poll / reconnect engine and the HTTP       *)
(* command endpoints.                                                      *)
(*                                                                         *)
(* Representation.                                                         *)
(*  - JavaScript strings are TLA+ strings (Len, \o, SubSeq, Head, Tail).   *)
(*  - A JavaScript number that holds a frequency is a decimal numeral: the *)
(*    string String(n) would produce ("0", "14074000"), "-" in front of a  *)
(*    negative one, and "NaN". The fields are up to 11 digits wide, which  *)
(*    is beyond the model checker's 32-bit integers but exact in a double. *)
(*  - A Buffer is a sequence of bytes 0..255.                              *)
(***************************************************************************)
EXTENDS Integers, Sequences, FiniteSets, TLC

----------------------------------------------------------------------------
(* String and number primitives of the language runtime.                   *)

SetMin(S) == CHOOSE m \in S : \A k \in S : m <= k

MinInt(a, b) == IF a <= b THEN a ELSE b

\* s.charAt(i): the empty string beyond the end.
CharAt(s, i) == IF i >= 0 /\ i < Len(s) THEN SubSeq(s, i + 1, i + 1) ELSE ""

\* s.substring(a, b), for 0 <= a <= b (indices clamp to the length).
Substring(s, a, b) == SubSeq(s, MinInt(a, Len(s)) + 1, MinInt(b, Len(s)))

\* s.indexOf(c) for a one-character c: 0-based, -1 when absent.
IndexOfChar(s, c) ==
    LET hits == {i \in 1..Len(s) : SubSeq(s, i, i) = c}
    IN  IF hits = {} THEN -1 ELSE SetMin(hits) - 1

StartsWith(s, p) == Len(s) >= Len(p) /\ SubSeq(s, 1, Len(p)) = p

DigitChars == {"0", "1", "2", "3", "4", "5", "6", "7", "8", "9"}

DigitChar(n) == SubSeq("0123456789", n + 1, n + 1)

DigitVal(c) == CHOOSE n \in 0..9 : DigitChar(n) = c

RECURSIVE StripZeros(_)
StripZeros(d) == IF Len(d) > 1 /\ Head(d) = "0" THEN StripZeros(Tail(d)) ELSE d

\* parseInt(s) with no radix. The modelled inputs hold neither white space
\* nor an 'x', so the leading-blank and "0x" branches are not needed.
ParseInt(s) ==
    LET signed == Len(s) > 0 /\ Head(s) \in {"-", "+"}
        body   == IF signed THEN Tail(s) ELSE s
        stop   == {i \in 1..Len(body) : SubSeq(body, i, i) \notin DigitChars}
        n      == IF stop = {} THEN Len(body) ELSE SetMin(stop) - 1
        v      == StripZeros(SubSeq(body, 1, n))
    IN  IF n = 0 THEN "NaN"
        ELSE IF signed /\ Head(s) = "-" THEN "-" \o v ELSE v

\* freq > 0 on a numeral (NaN > 0 and -0 > 0 are false).
GtZero(n) == n # "NaN" /\ Head(n) # "-" /\ n # "0"

\* s.padStart(w, '0'): pads, never truncates.
RECURSIVE PadStart(_, _)
PadStart(s, w) == IF Len(s) >= w THEN s ELSE PadStart("0" \o s, w)

\* n.toString(16) for a byte.
HexChar(n) == SubSeq("0123456789abcdef", n + 1, n + 1)

ToHex(b) == IF b < 16 THEN HexChar(b) ELSE HexChar(b \div 16) \o HexChar(b % 16)

\* s.toUpperCase() on the letters the mode labels use.
UpperChar(c) ==
    LET lo == "abcdefghijklmnopqrstuvwxyz"
        up == "ABCDEFGHIJKLMNOPQRSTUVWXYZ"
        at == {i \in 1..26 : SubSeq(lo, i, i) = c}
    IN  IF at = {} THEN c ELSE SubSeq(up, SetMin(at), SetMin(at))

RECURSIVE ToUpperCase(_)
ToUpperCase(s) == IF s = "" THEN "" ELSE UpperChar(Head(s)) \o ToUpperCase(Tail(s))

\* s.toLowerCase() on the letters the mode labels use.
LowerChar(c) ==
    LET lo == "abcdefghijklmnopqrstuvwxyz"
        up == "ABCDEFGHIJKLMNOPQRSTUVWXYZ"
        at == {i \in 1..26 : SubSeq(up, i, i) = c}
    IN  IF at = {} THEN c ELSE SubSeq(lo, SetMin(at), SetMin(at))

RECURSIVE ToLowerCase(_)
ToLowerCase(s) == IF s = "" THEN "" ELSE LowerChar(Head(s)) \o ToLowerCase(Tail(s))

----------------------------------------------------------------------------
(* The state of the program.                                               *)

VARIABLES
    config,          \* what main() is given: radio.brand (in lower case),
                     \* radio.pttEnabled, serial.port, the --mock flag
    phase,           \* "boot" until main() has run, then "run"; "exited"
                     \* after process.exit(1), "stopped" after process.exit(0)
    state,           \* the RadioState singleton
    now,             \* the wall clock Date.now() reads
    streams,         \* the response objects of the open GET /stream requests
    sseClients,      \* the subscriber array (response objects, by id)
    emitted,         \* the events the last handler gave to broadcast()
    sent,            \* per response object: the events the last handler
                     \* wrote to it, in order
    views,           \* per registered response object: the snapshot its
                     \* subscriber holds, the init event with every update
                     \* written since applied (<<>> when not registered)
    buffer,          \* protocol.buffer, the active codec's receive buffer
    serialPort,      \* "null", or the current port: "opening", "open",
                     \* "failed" (open refused), "closing" (close() called
                     \* by the shutdown handler), "closed"
    pollTimer,       \* the handle in pollTimer, 0 for null
    liveTimers,      \* the handles of the intervals that still tick
    reconnectTimers, \* the number of pending setTimeout(reconnect) timers
    wrote,           \* the frames serialPort.write took from the last
                     \* handler (a write that throws takes nothing)
    returned,        \* what sendToRadio returned to the last handler: "true",
                     \* "false", or "none" when the handler did not call it
    http,            \* the request the last handler served and its response
    frags,           \* codec runs: the pieces of the byte stream under test
    cut,             \* codec runs: where the stream is split in two chunks
    hz,              \* codec runs: the frequency given to setFreqCmd, or "none"
    pc,              \* codec runs: "off", "idle", "ready", "half", "done"
    base,            \* codec runs: the store when the stream begins
    trace            \* codec runs: the updates the stream has produced

vars == <<config, phase, state, now, streams, sseClients, emitted, sent, views, buffer,
          serialPort,
          pollTimer, liveTimers, reconnectTimers, wrote, returned, http,
          frags, cut, hz, pc, base, trace>>

codecVars == <<frags, cut, hz, pc, base, trace>>

----------------------------------------------------------------------------
(* RADIO STATE: state, broadcast, updateState.                             *)

InitialState ==
    [freq |-> "0", mode |-> "", width |-> 0, ptt |-> FALSE,
     connected |-> FALSE, lastUpdate |-> 0]

UpdateEvent(prop, value) == [type |-> "update", prop |-> prop, value |-> value]

\* updateState(prop, value) on an accumulator [st, ev]: st is the store, ev
\* the events handed to broadcast() so far by the running handler.
UpdateStateAlways(acc, prop, value) ==
    [st |-> [acc.st EXCEPT ![prop] = value, !.lastUpdate = now],
     ev |-> Append(acc.ev, UpdateEvent(prop, value))]

\* An updateState that also clears ptt when it stores another field.
UpdateStateClearsPtt(acc, prop, value) ==
    IF acc.st[prop] = value THEN acc
    ELSE [st |-> [acc.st EXCEPT ![prop] = value, !.ptt = (prop = "ptt" /\ value),
                               !.lastUpdate = now],
          ev |-> Append(acc.ev, UpdateEvent(prop, value))]

\* An updateState that stores and announces a change without marking it.
UpdateStateNoMark(acc, prop, value) ==
    IF acc.st[prop] = value THEN acc
    ELSE [st |-> [acc.st EXCEPT ![prop] = value],
          ev |-> Append(acc.ev, UpdateEvent(prop, value))]

UpdateState(acc, prop, value) ==
    IF acc.st[prop] = value THEN acc
    ELSE [st |-> [acc.st EXCEPT ![prop] = value, !.lastUpdate = now],
          ev |-> Append(acc.ev, UpdateEvent(prop, value))]

----------------------------------------------------------------------------
(* YAESU and KENWOOD / ELECRAFT CAT: text, semicolon-terminated.           *)

YAESU_MODES ==
    ("1" :> "LSB") @@ ("2" :> "USB") @@ ("3" :> "CW") @@ ("4" :> "FM") @@
    ("5" :> "AM") @@ ("6" :> "RTTY-LSB") @@ ("7" :> "CW-R") @@
    ("8" :> "DATA-LSB") @@ ("9" :> "RTTY-USB") @@ ("A" :> "DATA-FM") @@
    ("B" :> "FM-N") @@ ("C" :> "DATA-USB") @@ ("D" :> "AM-N")

KENWOOD_MODES ==
    ("1" :> "LSB") @@ ("2" :> "USB") @@ ("3" :> "CW") @@ ("4" :> "FM") @@
    ("5" :> "AM") @@ ("6" :> "FSK") @@ ("7" :> "CW-R") @@ ("9" :> "FSK-R")

\* The code itself, without the table.
ModeCodeOnly(table, code) == code

\* A lookup that gives nothing for a code the table does not have.
ModeOrNothing(table, code) == IF code \in DOMAIN table THEN table[code] ELSE ""

\* TABLE[code] || code
ModeOrCode(table, code) == IF code \in DOMAIN table THEN table[code] ELSE code

\* The while loop of the text parseResponse: cut the buffer at each ';'.
RECURSIVE SplitCommands(_, _)
SplitCommands(buf, commands) ==
    LET idx == IndexOfChar(buf, ";")
    IN  IF idx = -1 THEN [commands |-> commands, buffer |-> buf]
        ELSE SplitCommands(SubSeq(buf, idx + 2, Len(buf)),
                           Append(commands, Substring(buf, 0, idx + 1)))

\* A decoded frequency reaches the store only when it is > 0.
FreqReportNoGuard(acc, freq) == UpdateState(acc, "freq", freq)

FreqReport(acc, freq) == IF GtZero(freq) THEN UpdateState(acc, "freq", freq) ELSE acc

\* One pass of the for loop of YaesuProtocol.parseResponse.
YaesuCommand(acc, cmd) ==
    IF StartsWith(cmd, "FA") /\ Len(cmd) >= 11
    THEN FreqReport(acc, ParseInt(Substring(cmd, 2, Len(cmd) - 1)))
    ELSE IF StartsWith(cmd, "MD0") /\ Len(cmd) >= 4
    THEN UpdateState(acc, "mode", ModeOrCode(YAESU_MODES, CharAt(cmd, 3)))
    ELSE IF StartsWith(cmd, "TX") /\ Len(cmd) >= 3
    THEN UpdateState(acc, "ptt", CharAt(cmd, 2) # "0")
    ELSE IF StartsWith(cmd, "IF") /\ Len(cmd) >= 27
    THEN LET a1   == FreqReport(acc, ParseInt(Substring(cmd, 5, 14)))
             mode == ModeOrCode(YAESU_MODES, CharAt(cmd, 21))
         IN  IF mode # "" THEN UpdateState(a1, "mode", mode) ELSE a1
    ELSE acc

\* One pass of the for loop of KenwoodProtocol.parseResponse.
KenwoodCommand(acc, cmd) ==
    IF StartsWith(cmd, "FA") /\ Len(cmd) >= 13
    THEN FreqReport(acc, ParseInt(Substring(cmd, 2, Len(cmd) - 1)))
    ELSE IF StartsWith(cmd, "MD") /\ Len(cmd) >= 3
    THEN UpdateState(acc, "mode", ModeOrCode(KENWOOD_MODES, CharAt(cmd, 2)))
    ELSE IF StartsWith(cmd, "TX") /\ Len(cmd) >= 3
    THEN UpdateState(acc, "ptt", CharAt(cmd, 2) # "0")
    ELSE IF StartsWith(cmd, "IF") /\ Len(cmd) >= 37
    THEN LET a1   == FreqReport(acc, ParseInt(Substring(cmd, 2, 13)))
             mode == ModeOrCode(KENWOOD_MODES, CharAt(cmd, 29))
         IN  IF mode # "" THEN UpdateState(a1, "mode", mode) ELSE a1
    ELSE acc

\* A for loop that takes the commands of a batch last to first.
RECURSIVE TextCommandsBackwards(_, _, _)
TextCommandsBackwards(brand, acc, commands) ==
    IF commands = <<>> THEN acc
    ELSE TextCommandsBackwards(brand,
                      IF brand = "yaesu" THEN YaesuCommand(acc, commands[Len(commands)])
                      ELSE KenwoodCommand(acc, commands[Len(commands)]),
                      SubSeq(commands, 1, Len(commands) - 1))

RECURSIVE TextCommands(_, _, _)
TextCommands(brand, acc, commands) ==
    IF commands = <<>> THEN acc
    ELSE TextCommands(brand,
                      IF brand = "yaesu" THEN YaesuCommand(acc, Head(commands))
                      ELSE KenwoodCommand(acc, Head(commands)),
                      Tail(commands))

\* parseResponse(chunk) of the two text protocols: the new buffer and the
\* accumulator after every complete command.
TextParseResponse(brand, buf, acc, chunk) ==
    LET split == SplitCommands(buf \o chunk, <<>>)
    IN  [buffer |-> split.buffer, acc |-> TextCommands(brand, acc, split.commands)]

YaesuSetFreqCmd(f) == "FA" \o PadStart(f, 9) \o ";"

\* A frequency field without the zero padding.
KenwoodSetFreqCmdNoPad(f) == "FA" \o f \o ";"

KenwoodSetFreqCmd(f) == "FA" \o PadStart(f, 11) \o ";"

----------------------------------------------------------------------------
(* ICOM CI-V: binary frames FE FE <to> <from> <cmd> <data...> FD.          *)

ICOM_MODES ==
    (0 :> "LSB") @@ (1 :> "USB") @@ (2 :> "AM") @@ (3 :> "CW") @@
    (4 :> "RTTY") @@ (5 :> "FM") @@ (6 :> "WFM") @@ (7 :> "CW-R") @@
    (8 :> "RTTY-R") @@ (23 :> "DV")

civAddr == 148

controllerAddr == 224

\* _frame(payload)
IcomFrame(payload) == <<254, 254, civAddr, controllerAddr>> \o payload \o <<253>>

\* buffer.indexOf(Buffer.from([0xFE, 0xFE])): 0-based, -1 when absent.
IndexOfPreamble(buf) ==
    LET hits == {i \in 1..(Len(buf) - 1) : buf[i] = 254 /\ buf[i + 1] = 254}
    IN  IF hits = {} THEN -1 ELSE SetMin(hits) - 1

\* buffer.indexOf(byte, from): 0-based, -1 when absent.
IndexOfByteFrom(buf, byte, from) ==
    LET hits == {i \in (from + 1)..Len(buf) : buf[i] = byte}
    IN  IF hits = {} THEN -1 ELSE SetMin(hits) - 1

\* The two nibbles of each of the first min(length, 5) bytes, low one first:
\* the digits _bcdToFreq multiplies by 1, 10, 100, ...
RECURSIVE BcdNibbles(_, _)
BcdNibbles(data, i) ==
    IF i > MinInt(Len(data), 5) THEN <<>>
    ELSE <<data[i] % 16, (data[i] \div 16) % 16>> \o BcdNibbles(data, i + 1)

\* The numeral of sum(nibs[k] * 10^(k-1)) + carry: a nibble above 9 carries
\* into the next decimal place, as the multiplication by mult does.
RECURSIVE SumNibbles(_, _)
SumNibbles(nibs, carry) ==
    IF nibs = <<>> THEN (IF carry = 0 THEN "" ELSE DigitChar(carry))
    ELSE LET t == Head(nibs) + carry
         IN  SumNibbles(Tail(nibs), t \div 10) \o DigitChar(t % 10)

\* _bcdToFreq(data)
BcdToFreq(data) ==
    LET d == SumNibbles(BcdNibbles(data, 1), 0)
    IN  IF d = "" THEN "0" ELSE StripZeros(d)

\* f % 10 and Math.floor(f / 10) on a non-negative numeral.
Mod10(f) == DigitVal(SubSeq(f, Len(f), Len(f)))

Div10(f) == IF Len(f) <= 1 THEN "0" ELSE SubSeq(f, 1, Len(f) - 1)

\* A wrong nibble order: the high digit of each pair in the low nibble.
RECURSIVE FreqToBcdSwapped(_, _)
FreqToBcdSwapped(f, i) ==
    IF i = 5 THEN <<>>
    ELSE <<(Mod10(f) * 16) + Mod10(Div10(f))>>
         \o FreqToBcdSwapped(Div10(Div10(f)), i + 1)

\* The for loop of _freqToBcd from byte i on: buf[i] = (hi << 4) | lo.
RECURSIVE FreqToBcdFrom(_, _)
FreqToBcdFrom(f, i) ==
    IF i = 5 THEN <<>>
    ELSE <<(Mod10(Div10(f)) * 16) + Mod10(f)>>
         \o FreqToBcdFrom(Div10(Div10(f)), i + 1)

\* _freqToBcd(hz)
FreqToBcd(f) == FreqToBcdFrom(f, 0)

IcomSetFreqCmd(f) == IcomFrame(<<5>> \o FreqToBcd(f))

\* The address test of the frame loop.
AddressedToAnyone(frame) == TRUE

AddressedToUs(frame) == frame[3] = controllerAddr

\* The body of the while loop for one complete frame.
IcomFrameReport(acc, frame) ==
    IF Len(frame) < 6 THEN acc
    ELSE IF ~AddressedToUs(frame) THEN acc
    ELSE LET cmd  == frame[5]
             data == SubSeq(frame, 6, Len(frame) - 1)
         IN  IF cmd = 3 \/ cmd = 0
             THEN IF Len(data) >= 5 THEN FreqReport(acc, BcdToFreq(data)) ELSE acc
             ELSE IF cmd = 4 \/ cmd = 1
             THEN IF Len(data) >= 1
                  THEN UpdateState(acc, "mode",
                           IF data[1] \in DOMAIN ICOM_MODES THEN ICOM_MODES[data[1]]
                           ELSE "MODE_" \o ToHex(data[1]))
                  ELSE acc
             ELSE IF cmd = 28
             THEN IF Len(data) >= 2 /\ data[1] = 0
                  THEN UpdateState(acc, "ptt", data[2] = 1)
                  ELSE acc
             ELSE acc

\* A loop that keeps the bytes in front of an unterminated frame.
RECURSIVE IcomLoopKeepsJunk(_, _)
IcomLoopKeepsJunk(buf, acc) ==
    LET start == IndexOfPreamble(buf)
    IN  IF start = -1 THEN [buffer |-> <<>>, acc |-> acc]
        ELSE LET endIdx == IndexOfByteFrom(buf, 253, start + 2)
             IN  IF endIdx = -1
                 THEN [buffer |-> buf, acc |-> acc]
                 ELSE IcomLoopKeepsJunk(SubSeq(buf, endIdx + 2, Len(buf)),
                               IcomFrameReport(acc, SubSeq(buf, start + 1, endIdx + 1)))

\* The while (true) loop of IcomProtocol.parseResponse.
RECURSIVE IcomLoop(_, _)
IcomLoop(buf, acc) ==
    LET start == IndexOfPreamble(buf)
    IN  IF start = -1 THEN [buffer |-> <<>>, acc |-> acc]
        ELSE LET endIdx == IndexOfByteFrom(buf, 253, start + 2)
             IN  IF endIdx = -1
                 THEN [buffer |-> SubSeq(buf, start + 1, Len(buf)), acc |-> acc]
                 ELSE IcomLoop(SubSeq(buf, endIdx + 2, Len(buf)),
                               IcomFrameReport(acc, SubSeq(buf, start + 1, endIdx + 1)))

IcomParseResponse(buf, acc, chunk) == IcomLoop(buf \o chunk, acc)

----------------------------------------------------------------------------
(* The protocol object selected by initSerial.                             *)

\* protocol.parseResponse(chunk): [buffer, acc].
ParseResponse(brand, buf, acc, chunk) ==
    IF brand = "icom" THEN IcomParseResponse(buf, acc, chunk)
    ELSE IF brand = "mock" THEN [buffer |-> buf, acc |-> acc]
    ELSE TextParseResponse(brand, buf, acc, chunk)

\* A command builder returns a frame or null: <<frame>> or <<>>.
\* protocol.setFreqCmd(hz)
SetFreqCmd(brand, f) ==
    IF brand = "yaesu" THEN <<YaesuSetFreqCmd(f)>>
    ELSE IF brand = "kenwood" THEN <<KenwoodSetFreqCmd(f)>>
    ELSE IF brand = "icom" THEN <<IcomSetFreqCmd(f)>>
    ELSE <<>>

\* A setPttCmd that builds the PTT-off frame whatever it is asked.
SetPttCmdOff(brand, on) ==
    IF brand = "yaesu" THEN <<"TX0;">>
    ELSE IF brand = "kenwood" THEN <<"RX;">>
    ELSE IF brand = "icom" THEN <<IcomFrame(<<28, 0, 0>>)>>
    ELSE <<>>

\* protocol.setPttCmd(on)
SetPttCmd(brand, on) ==
    IF brand = "yaesu" THEN <<IF on THEN "TX1;" ELSE "TX0;">>
    ELSE IF brand = "kenwood" THEN <<IF on THEN "TX1;" ELSE "RX;">>
    ELSE IF brand = "icom" THEN <<IcomFrame(<<28, 0, IF on THEN 1 ELSE 0>>)>>
    ELSE <<>>

\* Names every plain object inherits from Object.prototype (some of them).
PrototypeKeys == {"constructor", "toString", "valueOf", "hasOwnProperty"}

\* String(member) of an inherited member: the source text of a built-in.
InheritedText(key) ==
    "function " \o (IF key = "constructor" THEN "Object" ELSE key)
                \o "() { [native code] }"

\* MODES_REV[label], MODES_REV being the plain object Object.fromEntries
\* builds from the table with label and code swapped: an entry of its own,
\* else a member inherited from Object.prototype, else undefined.
RevLookup(table, label) ==
    LET own == {c \in DOMAIN table : table[c] = label}
    IN  IF own # {} THEN [found |-> "own", code |-> CHOOSE c \in own : TRUE]
        ELSE IF label \in PrototypeKeys THEN [found |-> "inherited"]
        ELSE [found |-> "none"]

\* A lookup of the label as given only, without the upper-case retry.
RevLookupExact(table, mode) == RevLookup(table, mode)

\* MODES_REV[mode] || MODES_REV[mode.toUpperCase()] (for Icom with ??).
RevLookupEither(table, mode) ==
    IF RevLookup(table, mode).found # "none" THEN RevLookup(table, mode)
    ELSE RevLookup(table, ToUpperCase(mode))

\* The text put after MD / MD0: the code, or String() of what was found.
ModeText(table, mode) ==
    IF RevLookupEither(table, mode).found = "own"
    THEN RevLookupEither(table, mode).code
    ELSE InheritedText(mode)

\* protocol.setModeCmd(mode) for a string mode. In the Icom frame
\* Buffer.from stores a member that is not a number as the byte 0.
SetModeCmd(brand, mode) ==
    IF brand = "yaesu"
    THEN IF RevLookupEither(YAESU_MODES, mode).found = "none" THEN <<>>
         ELSE <<"MD0" \o ModeText(YAESU_MODES, mode) \o ";">>
    ELSE IF brand = "kenwood"
    THEN IF RevLookupEither(KENWOOD_MODES, mode).found = "none" THEN <<>>
         ELSE <<"MD" \o ModeText(KENWOOD_MODES, mode) \o ";">>
    ELSE IF brand = "icom"
    THEN IF RevLookupEither(ICOM_MODES, mode).found = "none" THEN <<>>
         ELSE <<IcomFrame(<<6, IF RevLookupEither(ICOM_MODES, mode).found = "own"
                               THEN RevLookupEither(ICOM_MODES, mode).code ELSE 0,
                            1>>)>>
    ELSE <<>>

\* Poll commands whose third one is the PTT-on command.
BuildPollCommandsKeying(brand) ==
    IF brand = "yaesu" THEN <<"FA;", "MD0;">> \o SetPttCmd(brand, TRUE)
    ELSE IF brand = "kenwood" THEN <<"FA;", "MD;">> \o SetPttCmd(brand, TRUE)
    ELSE IF brand = "icom"
    THEN <<IcomFrame(<<3>>), IcomFrame(<<4>>)>> \o SetPttCmd(brand, TRUE)
    ELSE <<>>

\* protocol.buildPollCommands()
BuildPollCommands(brand) ==
    IF brand = "yaesu" THEN <<"FA;", "MD0;", "TX;">>
    ELSE IF brand = "kenwood" THEN <<"FA;", "MD;", "TX;">>
    ELSE IF brand = "icom" THEN <<IcomFrame(<<3>>), IcomFrame(<<4>>), IcomFrame(<<28, 0>>)>>
    ELSE <<>>

\* The empty receive buffer of a protocol object: '' or Buffer.alloc(0).
EmptyBuffer(brand) == IF brand = "icom" THEN <<>> ELSE ""

\* The protocol object initSerial selects for a brand: Elecraft radios use
\* the Kenwood one; "none" for a brand it does not know.
ProtocolOf(brand) ==
    IF brand = "yaesu" THEN "yaesu"
    ELSE IF brand = "kenwood" \/ brand = "elecraft" THEN "kenwood"
    ELSE IF brand = "icom" THEN "icom"
    ELSE IF brand = "mock" THEN "mock"
    ELSE "none"

\* The global protocol, once initSerial or main has set it.
protocol == ProtocolOf(config.brand)

----------------------------------------------------------------------------
(* Bounds of the model.                                                    *)

\* The push-stream connections that can be open at once.
MaxClients == 2

\* The length of the receive buffer that is explored.
MaxBuffer == 3

\* The readings of the clock that are told apart.
MaxNow == 2

Clients == 1..MaxClients

Brands == {"yaesu", "kenwood", "icom", "mock"}

\* What the serial port delivers in one 'data' event: a report, two reports
\* at once, a report cut in two, a zero frequency.
Chunks(brand) ==
    IF brand = "yaesu"
    THEN {"FA014074000;", "MD03;TX1;", "FA", "007074000;", "TX0;", "FA000000000;"}
    ELSE IF brand = "kenwood"
    THEN {"FA00014074000;", "MD3;TX1;", "FA", "00007074000;", "TX0;", "FA00000000000;"}
    ELSE IF brand = "icom"
    THEN {<<254, 254, 224, 148, 3, 0, 64, 7, 20, 0, 253>>,
          <<254, 254, 224, 148, 4, 3, 1, 253, 254, 254, 224, 148, 28, 0, 1, 253>>,
          <<254, 254, 224>>, <<148, 0, 0, 64, 7, 7, 0, 253>>,
          <<254, 254, 224, 148, 28, 0, 0, 253>>,
          <<254, 254, 224, 148, 3, 0, 0, 0, 0, 0, 253>>}
    ELSE {}

----------------------------------------------------------------------------
(* HTTP requests and responses.                                            *)

\* JSON.parse(data) of a request body, as parseBody hands it to the route:
\* parsed is FALSE for cb(null); a missing key reads as "undefined".
Body(parsed, freq, mode, ptt) ==
    [parsed |-> parsed, freq |-> freq, mode |-> mode, ptt |-> ptt]

NullBody == Body(FALSE, "undefined", "undefined", "undefined")

\* The truthiness of a JSON value.
Truthy(v) == v \notin {"undefined", "null", "false", "0", ""}

Exchange(path, body, status, reply) ==
    [path |-> path, body |-> body, status |-> status, reply |-> reply,
     json |-> <<>>]

\* An exchange whose response carries the JSON object obj.
JsonExchange(path, obj) ==
    [path |-> path, body |-> NullBody, status |-> 200, reply |-> "",
     json |-> <<obj>>]

\* The object GET /status answers with.
StatusJson(st) ==
    [connected |-> st.connected, freq |-> st.freq, mode |-> st.mode,
     width |-> st.width, ptt |-> st.ptt, timestamp |-> st.lastUpdate]

\* The object GET / answers with; the model name is not modelled.
InfoJson(st) ==
    [name |-> "OpenHamClock Rig Listener", connected |-> st.connected,
     radio |-> config.brand]

\* No request was served by the last handler.
NoHttp == Exchange("", NullBody, 0, "")

PttBodies ==
    {NullBody} \cup {Body(TRUE, "undefined", "undefined", v) : v \in {"true", "false", "undefined"}}

----------------------------------------------------------------------------
(* SSE: init snapshot, broadcast.                                          *)

\* The init event of GET /stream.
InitEvent(st) ==
    [type |-> "init", connected |-> st.connected, freq |-> st.freq,
     mode |-> st.mode, width |-> st.width, ptt |-> st.ptt]

\* The ids of the response objects in an array of subscribers.
Members(arr) == {arr[i] : i \in 1..Len(arr)}

\* No event is written to any response object.
NoWrites == [c \in Clients |-> <<>>]

\* No response object is registered.
NoViews == [c \in Clients |-> <<>>]

\* What a subscriber holds after the events evs written to its response:
\* an init event is the new snapshot, an update sets the field it names.
RECURSIVE Replay(_, _)
Replay(view, evs) ==
    IF evs = <<>> THEN view
    ELSE Replay(IF Head(evs).type = "init" THEN <<Head(evs)>>
                ELSE IF view = <<>> THEN view
                ELSE <<[view[1] EXCEPT ![Head(evs).prop] = Head(evs).value]>>,
                Tail(evs))

\* The subscribers take what the handler wrote to their responses; a
\* response that is not registered after the handler has no subscriber.
Received ==
    views' = [c \in Clients |->
                IF c \in Members(sseClients') THEN Replay(views[c], sent'[c])
                ELSE <<>>]

\* broadcast() without the filter: a subscriber whose write throws stays.
BroadcastKeepAll(evs) ==
    \E fail \in [Members(sseClients) -> 1..(Len(evs) + 1)] :
       /\ emitted' = evs
       /\ sent' = [c \in Clients |->
                     IF c \in Members(sseClients)
                     THEN SubSeq(evs, 1, fail[c] - 1) ELSE <<>>]
       /\ sseClients' = sseClients

\* broadcast() as a loop that the first throwing write ends: only that
\* subscriber is dropped, and the subscribers after it are not written.
BroadcastStopAtFailure(evs) ==
    \E fail \in [Members(sseClients) -> 1..(Len(evs) + 1)] :
       LET bad   == {i \in 1..Len(sseClients) : fail[sseClients[i]] <= Len(evs)}
           first == IF bad = {} THEN Len(sseClients) + 1 ELSE SetMin(bad)
           pos(c) == CHOOSE i \in 1..Len(sseClients) : sseClients[i] = c
       IN  /\ emitted' = evs
           /\ sent' = [c \in Clients |->
                         IF c \notin Members(sseClients) THEN <<>>
                         ELSE IF pos(c) > first THEN <<>>
                         ELSE SubSeq(evs, 1, fail[c] - 1)]
           /\ sseClients' = SelectSeq(sseClients, LAMBDA c : pos(c) # first)

\* broadcast(data), once per event of evs in order. A write to a subscriber
\* may throw: fail[c] is the first event whose write to c throws (none when
\* Len(evs) + 1); the filter drops c there, so c gets no later event.
Broadcast(evs) ==
    \E fail \in [Members(sseClients) -> 1..(Len(evs) + 1)] :
       /\ emitted' = evs
       /\ sent' = [c \in Clients |->
                     IF c \in Members(sseClients)
                     THEN SubSeq(evs, 1, fail[c] - 1) ELSE <<>>]
       /\ sseClients' = SelectSeq(sseClients, LAMBDA c : fail[c] = Len(evs) + 1)

----------------------------------------------------------------------------
(* SERIAL ENGINE: initSerial, the port's event handlers, reconnect,        *)
(* sendToRadio.                                                            *)

\* A fresh timer handle.
NewHandle == SetMin((1..(Cardinality(liveTimers) + 1)) \ liveTimers)

\* What initSerial finds on the machine: the serialport package loads and
\* the SerialPort constructor takes the options, or require() throws, or
\* the constructor throws.
Envs == {"ok", "nomodule", "badoptions"}

\* The store of the simulation: what the mock brand seeds.
MockState(st) ==
    [st EXCEPT !.connected = TRUE, !.freq = "14074000", !.mode = "USB"]

\* An initSerial that opens a port for the mock brand as for a radio.
InitSerialMockOpens(env) ==
    IF protocol = "none" \/ env # "ok"
    THEN /\ phase' = "exited"
         /\ UNCHANGED <<state, serialPort>>
    ELSE /\ phase' = "run"
         /\ serialPort' = "opening"
         /\ UNCHANGED state

\* initSerial(cfg): the mock brand seeds the store and returns; a brand
\* with no protocol ends the process, and so does a serialport package
\* that does not load or a constructor that throws; otherwise a port is
\* created and starts opening.
InitSerial(env) ==
    IF protocol = "mock"
    THEN /\ phase' = "run"
         /\ state' = MockState(state)
         /\ UNCHANGED serialPort
    ELSE IF protocol = "none" \/ env # "ok"
    THEN /\ phase' = "exited"
         /\ UNCHANGED <<state, serialPort>>
    ELSE /\ phase' = "run"
         /\ serialPort' = "opening"
         /\ UNCHANGED state

\* main(): with --mock the simulation is set up and the server started;
\* otherwise a configuration without a serial port ends the process, and
\* a valid one starts the server, then initSerial(cfg).
Main(env) ==
    /\ phase = "boot"
    /\ IF config.mock
       THEN /\ config' = [config EXCEPT !.brand = "mock"]
            /\ phase' = "run"
            /\ state' = MockState(state)
            /\ UNCHANGED serialPort
       ELSE IF config.port = ""
       THEN /\ phase' = "exited"
            /\ UNCHANGED <<config, state, serialPort>>
       ELSE /\ InitSerial(env)
            /\ UNCHANGED config
    /\ emitted' = <<>>
    /\ sent' = NoWrites
    /\ wrote' = <<>>
    /\ returned' = "none"
    /\ http' = NoHttp
    /\ UNCHANGED <<now, streams, sseClients, buffer, pollTimer,
                   liveTimers, reconnectTimers, codecVars>>
    /\ Received

\* server.on('error'): a port already in use ends the process, any other
\* error is logged.
ListenError(code) ==
    /\ phase = "run"
    /\ phase' = IF code = "EADDRINUSE" THEN "exited" ELSE phase
    /\ emitted' = <<>>
    /\ sent' = NoWrites
    /\ wrote' = <<>>
    /\ returned' = "none"
    /\ http' = NoHttp
    /\ UNCHANGED <<config, state, now, streams, sseClients, buffer, serialPort,
                   pollTimer, liveTimers, reconnectTimers, codecVars>>
    /\ Received

\* The command a command route builds for the request of an exchange.
CommandOf(exchange) ==
    IF exchange.path = "/freq" THEN SetFreqCmd(protocol, exchange.body.freq)
    ELSE IF exchange.path = "/mode" THEN SetModeCmd(protocol, exchange.body.mode)
    ELSE IF exchange.path = "/ptt"
    THEN SetPttCmd(protocol, Truthy(exchange.body.ptt))
    ELSE <<>>

\* An open handler that writes the command sendToRadio has just refused.
OpenOkReplays ==
    /\ phase = "run"
    /\ serialPort = "opening"
    /\ serialPort' = "open"
    /\ state' = [state EXCEPT !.connected = TRUE]
    /\ Broadcast(<<UpdateEvent("connected", TRUE)>>)
    /\ pollTimer' = NewHandle
    /\ liveTimers' = liveTimers \cup {NewHandle}
    /\ wrote' = IF returned = "false" THEN CommandOf(http) ELSE <<>>
    /\ returned' = "none"
    /\ http' = NoHttp
    /\ UNCHANGED <<config, phase, now, streams, buffer, reconnectTimers, codecVars>>
    /\ Received

\* An open handler that stores connected = true and tells no subscriber.
OpenOkSilent ==
    /\ phase = "run"
    /\ serialPort = "opening"
    /\ serialPort' = "open"
    /\ state' = [state EXCEPT !.connected = TRUE]
    /\ emitted' = <<>>
    /\ sent' = NoWrites
    /\ pollTimer' = NewHandle
    /\ liveTimers' = liveTimers \cup {NewHandle}
    /\ wrote' = <<>>
    /\ returned' = "none"
    /\ http' = NoHttp
    /\ UNCHANGED <<config, phase, now, streams, sseClients, buffer, reconnectTimers,
                   codecVars>>
    /\ Received

\* serialPort.on('open'): the port opened.
OpenOk ==
    /\ phase = "run"
    /\ serialPort = "opening"
    /\ serialPort' = "open"
    /\ state' = [state EXCEPT !.connected = TRUE]
    /\ Broadcast(<<UpdateEvent("connected", TRUE)>>)
    /\ pollTimer' = NewHandle
    /\ liveTimers' = liveTimers \cup {NewHandle}
    /\ wrote' = <<>>
    /\ returned' = "none"
    /\ http' = NoHttp
    /\ UNCHANGED <<config, phase, now, streams, buffer, reconnectTimers, codecVars>>
    /\ Received

\* An open callback that ends the process on an error.
OpenFailExit ==
    /\ phase = "run"
    /\ serialPort = "opening"
    /\ serialPort' = "failed"
    /\ phase' = "exited"
    /\ emitted' = <<>>
    /\ sent' = NoWrites
    /\ wrote' = <<>>
    /\ returned' = "none"
    /\ http' = NoHttp
    /\ UNCHANGED <<config, state, now, streams, sseClients, buffer,
                   pollTimer, liveTimers, reconnectTimers, codecVars>>
    /\ Received

\* The callback of serialPort.open with an error: retry in 5 s.
OpenFail ==
    /\ phase = "run"
    /\ serialPort = "opening"
    /\ serialPort' = "failed"
    /\ reconnectTimers' = reconnectTimers + 1
    /\ emitted' = <<>>
    /\ sent' = NoWrites
    /\ wrote' = <<>>
    /\ returned' = "none"
    /\ http' = NoHttp
    /\ UNCHANGED <<config, phase, state, now, streams, sseClients, buffer,
                   pollTimer, liveTimers, codecVars>>
    /\ Received

\* protocol.parseResponse(chunk) on the current buffer and store.
Decoded(chunk) ==
    ParseResponse(protocol, buffer, [st |-> state, ev |-> <<>>], chunk)

\* serialPort.on('data'): the chunk goes to protocol.parseResponse.
Data(chunk) ==
    /\ phase = "run"
    /\ serialPort = "open"
    /\ LET r == Decoded(chunk)
       IN  /\ buffer' = r.buffer
           /\ state' = r.acc.st
           /\ Broadcast(r.acc.ev)
    /\ wrote' = <<>>
    /\ returned' = "none"
    /\ http' = NoHttp
    /\ UNCHANGED <<config, phase, now, streams, serialPort, pollTimer, liveTimers,
                   reconnectTimers>>
    /\ Received

\* serialPort.on('error'): the port object stays as it is.
PortError ==
    /\ phase = "run"
    /\ serialPort = "open"
    /\ state' = [state EXCEPT !.connected = FALSE]
    /\ Broadcast(<<UpdateEvent("connected", FALSE)>>)
    /\ wrote' = <<>>
    /\ returned' = "none"
    /\ http' = NoHttp
    /\ UNCHANGED <<config, phase, now, streams, buffer, serialPort, pollTimer,
                   liveTimers, reconnectTimers, codecVars>>
    /\ Received

\* A close handler that leaves connected as it is and tells nobody.
PortCloseSilent ==
    /\ phase = "run"
    /\ serialPort = "open"
    /\ serialPort' = "closed"
    /\ emitted' = <<>>
    /\ sent' = NoWrites
    /\ liveTimers' = liveTimers \ {pollTimer}
    /\ reconnectTimers' = reconnectTimers + 1
    /\ wrote' = <<>>
    /\ returned' = "none"
    /\ http' = NoHttp
    /\ UNCHANGED <<config, phase, state, now, streams, sseClients, buffer,
                   pollTimer, codecVars>>
    /\ Received

\* A close handler that leaves the poll interval running.
PortCloseKeepsTimer ==
    /\ phase = "run"
    /\ serialPort = "open"
    /\ serialPort' = "closed"
    /\ state' = [state EXCEPT !.connected = FALSE]
    /\ Broadcast(<<UpdateEvent("connected", FALSE)>>)
    /\ reconnectTimers' = reconnectTimers + 1
    /\ wrote' = <<>>
    /\ returned' = "none"
    /\ http' = NoHttp
    /\ UNCHANGED <<config, phase, now, streams, buffer, pollTimer, liveTimers,
                   codecVars>>
    /\ Received

\* serialPort.on('close')
PortClose ==
    /\ phase = "run"
    /\ serialPort = "open"
    /\ serialPort' = "closed"
    /\ state' = [state EXCEPT !.connected = FALSE]
    /\ Broadcast(<<UpdateEvent("connected", FALSE)>>)
    /\ liveTimers' = liveTimers \ {pollTimer}
    /\ reconnectTimers' = reconnectTimers + 1
    /\ wrote' = <<>>
    /\ returned' = "none"
    /\ http' = NoHttp
    /\ UNCHANGED <<config, phase, now, streams, buffer, pollTimer, codecVars>>
    /\ Received

\* A reconnect timer fires: reconnect(cfg) closes and drops the old port
\* object, which is not open when a timer is pending, and calls initSerial
\* again, with the package loaded and the options the constructor took
\* before. The protocol objects are not re-created.
Reconnect ==
    /\ phase = "run"
    /\ reconnectTimers > 0
    /\ reconnectTimers' = reconnectTimers - 1
    /\ InitSerial("ok")
    /\ emitted' = <<>>
    /\ sent' = NoWrites
    /\ wrote' = <<>>
    /\ returned' = "none"
    /\ http' = NoHttp
    /\ UNCHANGED <<config, now, streams, sseClients, buffer, pollTimer,
                   liveTimers, codecVars>>
    /\ Received

\* The commands of cmds whose write did not throw, in order.
Taken(cmds, threw) ==
    LET F[i \in 0..Len(cmds)] ==
            IF i = 0 THEN <<>>
            ELSE IF i \in threw THEN F[i - 1] ELSE Append(F[i - 1], cmds[i])
    IN  F[Len(cmds)]

\* A tick that stops the interval when one of its writes throws.
PollTickStopsOnFailure(h, threw) ==
    /\ phase = "run"
    /\ h \in liveTimers
    /\ wrote' = IF serialPort = "open"
                THEN Taken(BuildPollCommands(protocol), threw) ELSE <<>>
    /\ liveTimers' = IF serialPort = "open" /\ threw # {}
                     THEN liveTimers \ {h} ELSE liveTimers
    /\ returned' = "none"
    /\ emitted' = <<>>
    /\ sent' = NoWrites
    /\ http' = NoHttp
    /\ UNCHANGED <<config, phase, state, now, streams, sseClients, buffer,
                   serialPort, pollTimer, reconnectTimers, codecVars>>
    /\ Received

\* One tick of a poll interval: nothing when the current port is not open,
\* else every poll command is written; the writes of threw throw and the
\* catch swallows them.
PollTick(h, threw) ==
    /\ phase = "run"
    /\ h \in liveTimers
    /\ wrote' = IF serialPort = "open"
                THEN Taken(BuildPollCommands(protocol), threw) ELSE <<>>
    /\ returned' = "none"
    /\ emitted' = <<>>
    /\ sent' = NoWrites
    /\ http' = NoHttp
    /\ UNCHANGED <<config, phase, state, now, streams, sseClients, buffer,
                   serialPort, pollTimer, liveTimers, reconnectTimers, codecVars>>
    /\ Received

\* sendToRadio that writes without looking at the port.
SendToRadioBlind(data) == [returned |-> "true", wrote |-> <<data>>]

\* sendToRadio(data): what it returns and the frames it gives to
\* serialPort.write. write() is given a string or a Buffer and the port is
\* open, so it does not throw and the catch branch is not taken.
SendToRadio(data) ==
    IF serialPort # "open" THEN [returned |-> "false", wrote |-> <<>>]
    ELSE [returned |-> "true", wrote |-> <<data>>]

\* if (cmd) sendToRadio(cmd) of the command routes.
Forward(cmd) ==
    LET r == IF cmd # <<>> THEN SendToRadio(cmd[1])
             ELSE [returned |-> "none", wrote |-> <<>>]
    IN  /\ wrote' = r.wrote
        /\ returned' = r.returned

\* Time passes.
Tick ==
    /\ now < MaxNow
    /\ now' = now + 1
    /\ emitted' = <<>>
    /\ sent' = NoWrites
    /\ wrote' = <<>>
    /\ returned' = "none"
    /\ http' = NoHttp
    /\ UNCHANGED <<config, phase, state, streams, sseClients, buffer, serialPort,
                   pollTimer, liveTimers, reconnectTimers, codecVars>>
    /\ Received

----------------------------------------------------------------------------
(* HTTP SERVER: the routes of startServer.                                 *)

\* GET /stream that registers the response and writes no snapshot.
StreamConnectNoInit(c) ==
    /\ phase = "run"
    /\ c \notin streams
    /\ streams' = streams \cup {c}
    /\ emitted' = <<>>
    /\ sent' = NoWrites
    /\ sseClients' = Append(sseClients, c)
    /\ wrote' = <<>>
    /\ returned' = "none"
    /\ http' = Exchange("/stream", NullBody, 200, "")
    /\ UNCHANGED <<config, phase, state, now, buffer, serialPort, pollTimer,
                   liveTimers, reconnectTimers, codecVars>>
    /\ Received

\* GET /stream: write the init snapshot to the response, then push the
\* response onto sseClients. c is a response object not in use.
StreamConnect(c) ==
    /\ phase = "run"
    /\ c \notin streams
    /\ streams' = streams \cup {c}
    /\ emitted' = <<>>
    /\ sent' = [NoWrites EXCEPT ![c] = <<InitEvent(state)>>]
    /\ sseClients' = Append(sseClients, c)
    /\ wrote' = <<>>
    /\ returned' = "none"
    /\ http' = Exchange("/stream", NullBody, 200, "")
    /\ UNCHANGED <<config, phase, state, now, buffer, serialPort, pollTimer,
                   liveTimers, reconnectTimers, codecVars>>
    /\ Received

\* req.on('close') of a stream request: the response object goes away.
StreamClose(c) ==
    /\ phase = "run"
    /\ c \in streams
    /\ streams' = streams \ {c}
    /\ sseClients' = SelectSeq(sseClients, LAMBDA x : x # c)
    /\ emitted' = <<>>
    /\ sent' = NoWrites
    /\ wrote' = <<>>
    /\ returned' = "none"
    /\ http' = NoHttp
    /\ UNCHANGED <<config, phase, state, now, buffer, serialPort, pollTimer,
                   liveTimers, reconnectTimers, codecVars>>
    /\ Received

\* The PTT route without the pttEnabled test.
PttRouteUnguarded(body) ==
    LET on  == Truthy(IF body.parsed THEN body.ptt ELSE "undefined")
        cmd == SetPttCmd(protocol, on)
    IN  /\ Forward(cmd)
        /\ http' = Exchange("/ptt", body, 200, "success")

\* The callback of POST /ptt: body?.ptt with PTT disabled is refused.
PttRoute(body) ==
    LET on  == Truthy(IF body.parsed THEN body.ptt ELSE "undefined")
        cmd == SetPttCmd(protocol, on)
    IN  IF ~config.pttEnabled /\ on
        THEN /\ wrote' = <<>>
             /\ returned' = "none"
             /\ http' = Exchange("/ptt", body, 403, "PTT disabled in configuration")
        ELSE /\ Forward(cmd)
             /\ http' = Exchange("/ptt", body, 200, "success")

\* POST /ptt
PostPtt(body) ==
    /\ phase = "run"
    /\ PttRoute(body)
    /\ emitted' = <<>>
    /\ sent' = NoWrites
    /\ UNCHANGED <<config, phase, state, now, streams, sseClients, buffer,
                   serialPort, pollTimer, liveTimers, reconnectTimers, codecVars>>
    /\ Received

\* The bodies of POST /freq: none or not JSON, no freq key, 0, a frequency.
FreqBodies ==
    {NullBody} \cup {Body(TRUE, v, "undefined", "undefined") : v \in {"undefined", "0", "14074000"}}

\* A POST /freq that answers 200 to a request without a frequency.
FreqRouteLenient(body) ==
    IF ~body.parsed \/ ~Truthy(body.freq)
    THEN /\ wrote' = <<>>
         /\ returned' = "none"
         /\ http' = Exchange("/freq", body, 200, "success")
    ELSE /\ Forward(SetFreqCmd(protocol, body.freq))
         /\ http' = Exchange("/freq", body, 200, "success")

\* The callback of POST /freq.
FreqRoute(body) ==
    IF ~body.parsed \/ ~Truthy(body.freq)
    THEN /\ wrote' = <<>>
         /\ returned' = "none"
         /\ http' = Exchange("/freq", body, 400, "Missing freq")
    ELSE /\ Forward(SetFreqCmd(protocol, body.freq))
         /\ http' = Exchange("/freq", body, 200, "success")

\* POST /freq
PostFreq(body) ==
    /\ phase = "run"
    /\ FreqRoute(body)
    /\ emitted' = <<>>
    /\ sent' = NoWrites
    /\ UNCHANGED <<config, phase, state, now, streams, sseClients, buffer,
                   serialPort, pollTimer, liveTimers, reconnectTimers, codecVars>>
    /\ Received

\* The bodies of POST /mode: none or not JSON, no mode key, a label in
\* lower case, a label of no table, a name every object inherits.
ModeBodies ==
    {NullBody} \cup {Body(TRUE, "undefined", v, "undefined") :
                        v \in {"undefined", "usb", "XYZ", "constructor"}}

\* The callback of POST /mode.
ModeRoute(body) ==
    IF ~body.parsed \/ ~Truthy(body.mode)
    THEN /\ wrote' = <<>>
         /\ returned' = "none"
         /\ http' = Exchange("/mode", body, 400, "Missing mode")
    ELSE /\ Forward(SetModeCmd(protocol, body.mode))
         /\ http' = Exchange("/mode", body, 200, "success")

\* POST /mode
PostMode(body) ==
    /\ phase = "run"
    /\ ModeRoute(body)
    /\ emitted' = <<>>
    /\ sent' = NoWrites
    /\ UNCHANGED <<config, phase, state, now, streams, sseClients, buffer,
                   serialPort, pollTimer, liveTimers, reconnectTimers, codecVars>>
    /\ Received

\* A request the last handler served without reading a body.
Served(exchange) ==
    /\ phase = "run"
    /\ http' = exchange
    /\ emitted' = <<>>
    /\ sent' = NoWrites
    /\ wrote' = <<>>
    /\ returned' = "none"
    /\ UNCHANGED <<config, phase, state, now, streams, sseClients, buffer,
                   serialPort, pollTimer, liveTimers, reconnectTimers, codecVars>>
    /\ Received

\* OPTIONS, any path
Options == Served(Exchange("*", NullBody, 204, ""))

\* A GET /status that answers with the store as it was created.
GetStatusStale == Served(JsonExchange("/status", StatusJson(InitialState)))

\* GET /status
GetStatus == Served(JsonExchange("/status", StatusJson(state)))

\* GET /
GetRoot == Served(JsonExchange("/", InfoJson(state)))

\* Any other method and path.
NotFound == Served(Exchange("/nope", NullBody, 404, "Not found"))

----------------------------------------------------------------------------
(* SHUTDOWN: the SIGINT handler; SIGTERM emits SIGINT.                     *)

\* process.on('SIGINT'): the poll interval is cleared; an open port is
\* asked to close and the process goes on until the callback; with no open
\* port (none, not yet open, closing, closed) the process exits at once.
Sigint ==
    /\ phase \in {"boot", "run"}
    /\ liveTimers' = liveTimers \ {pollTimer}
    /\ IF serialPort = "open"
       THEN /\ serialPort' = "closing"
            /\ UNCHANGED phase
       ELSE /\ phase' = "stopped"
            /\ UNCHANGED serialPort
    /\ emitted' = <<>>
    /\ sent' = NoWrites
    /\ wrote' = <<>>
    /\ returned' = "none"
    /\ http' = NoHttp
    /\ UNCHANGED <<config, state, now, streams, sseClients, buffer, pollTimer,
                   reconnectTimers, codecVars>>
    /\ Received

\* The close the shutdown handler asked for is done: the port emits
\* 'close', whose handler runs as for any close, then the callback of
\* close() exits the process.
ShutdownClosed ==
    /\ phase = "run"
    /\ serialPort = "closing"
    /\ serialPort' = "closed"
    /\ state' = [state EXCEPT !.connected = FALSE]
    /\ Broadcast(<<UpdateEvent("connected", FALSE)>>)
    /\ liveTimers' = liveTimers \ {pollTimer}
    /\ reconnectTimers' = reconnectTimers + 1
    /\ phase' = "stopped"
    /\ wrote' = <<>>
    /\ returned' = "none"
    /\ http' = NoHttp
    /\ UNCHANGED <<config, now, streams, buffer, pollTimer, codecVars>>
    /\ Received

----------------------------------------------------------------------------
(* The bridge: from the start of the process on.                           *)

Init ==
    /\ config \in [brand : Brands, pttEnabled : BOOLEAN, port : {"/dev/ttyUSB0"},
                    mock : {FALSE}]
    /\ phase = "boot"
    /\ state = InitialState
    /\ now = 1
    /\ streams = {}
    /\ sseClients = <<>>
    /\ emitted = <<>>
    /\ sent = NoWrites
    /\ views = NoViews
    /\ buffer = EmptyBuffer(protocol)
    /\ serialPort = "null"
    /\ pollTimer = 0
    /\ liveTimers = {}
    /\ reconnectTimers = 0
    /\ wrote = <<>>
    /\ returned = "none"
    /\ http = NoHttp
    /\ frags = <<>>
    /\ cut = 0
    /\ hz = "none"
    /\ pc = "off"
    /\ base = InitialState
    /\ trace = <<>>

Next ==
    \/ Main("ok")
    \/ OpenOk
    \/ OpenFail
    \/ \E chunk \in Chunks(protocol) :
          /\ Len(Decoded(chunk).buffer) <= MaxBuffer
          /\ Data(chunk)
          /\ UNCHANGED codecVars
    \/ PortError
    \/ PortClose
    \/ Reconnect
    \/ \E h \in liveTimers : PollTick(h, {})
    \/ Tick
    \/ \E c \in Clients : StreamConnect(c)
    \/ \E c \in Clients : StreamClose(c)
    \/ \E body \in PttBodies : PostPtt(body)
    \/ \E body \in FreqBodies : PostFreq(body)
    \/ \E body \in ModeBodies : PostMode(body)

Spec == Init /\ [][Next]_vars

----------------------------------------------------------------------------
(* The life of the process: any configuration, a machine on which the     *)
(* start may fail, every route of the server, poll writes that may throw, *)
(* shutdown signals; one push-stream client.                               *)

\* The brands a configuration may name: the five known ones and another.
LifeBrands == Brands \cup {"elecraft", "flex"}

\* What the serial port delivers in one 'data' event: a frequency report,
\* a mode and a PTT report.
LifeChunks(brand) ==
    IF brand = "yaesu" THEN {"FA014074000;", "MD03;TX1;"}
    ELSE IF brand = "kenwood" THEN {"FA00014074000;", "MD3;TX1;"}
    ELSE IF brand = "icom"
    THEN {<<254, 254, 224, 148, 3, 0, 64, 7, 20, 0, 253>>,
          <<254, 254, 224, 148, 4, 3, 1, 253, 254, 254, 224, 148, 28, 0, 1, 253>>}
    ELSE {}

LifeInit ==
    /\ config \in [brand : LifeBrands, pttEnabled : BOOLEAN,
                    port : {"", "/dev/ttyUSB0"}, mock : BOOLEAN]
    /\ phase = "boot"
    /\ state = InitialState
    /\ now = 1
    /\ streams = {}
    /\ sseClients = <<>>
    /\ emitted = <<>>
    /\ sent = NoWrites
    /\ views = NoViews
    /\ buffer = EmptyBuffer(protocol)
    /\ serialPort = "null"
    /\ pollTimer = 0
    /\ liveTimers = {}
    /\ reconnectTimers = 0
    /\ wrote = <<>>
    /\ returned = "none"
    /\ http = NoHttp
    /\ frags = <<>>
    /\ cut = 0
    /\ hz = "none"
    /\ pc = "off"
    /\ base = InitialState
    /\ trace = <<>>

LifeNext ==
    \/ \E env \in Envs : Main(env)
    \/ \E code \in {"EADDRINUSE", "EACCES"} : ListenError(code)
    \/ OpenOk
    \/ OpenFail
    \/ \E chunk \in LifeChunks(protocol) : Data(chunk) /\ UNCHANGED codecVars
    \/ PortError
    \/ PortClose
    \/ Reconnect
    \/ \E h \in liveTimers : \E threw \in SUBSET (1..3) : PollTick(h, threw)
    \/ Tick
    \/ StreamConnect(1)
    \/ StreamClose(1)
    \/ Options
    \/ GetStatus
    \/ GetRoot
    \/ NotFound
    \/ \E body \in PttBodies : PostPtt(body)
    \/ \E body \in FreqBodies : PostFreq(body)
    \/ \E body \in ModeBodies : PostMode(body)
    \/ Sigint
    \/ ShutdownClosed

SpecLife == LifeInit /\ [][LifeNext]_vars

----------------------------------------------------------------------------
(* The codecs alone: a byte stream is drawn, or built by setFreqCmd, and   *)
(* delivered to parseResponse of a bridge whose port is open and that has  *)
(* one subscriber, in one chunk or split in two.                           *)

\* The pieces drawn for one stream.
MaxFrags == 2

\* The pieces a stream is made of: reports of each kind, a zero frequency,
\* the extended IF report, a report too short, an unknown command, and for
\* CI-V frames to other addresses, stray bytes and an unterminated frame.
Frags(brand) ==
    IF brand = "yaesu"
    THEN {"FA014074000;", "FA000000000;", "MD03;", "TX1;", "TX0;", "FA1;", "ZZ;",
          "IF001007074000+000000200000;", "IF001000000000+000000300000;",
          "FA014074000;MD03;TX0;", "FA007074000;MD0C;"}
    ELSE IF brand = "kenwood"
    THEN {"FA00014074000;", "FA00000000000;", "MD3;", "TX1;", "TX0;", "FA1;", "ZZ;",
          "IF00007074000000000000000000020000000;",
          "IF00000000000000000000000000030000000;"}
    ELSE {<<254, 254, 224, 148, 3, 0, 64, 7, 20, 0, 253>>,
          <<254, 254, 224, 148, 3, 0, 0, 0, 0, 0, 253>>,
          <<254, 254, 224, 148, 0, 0, 64, 7, 7, 0, 253>>,
          <<254, 254, 224, 148, 0, 0, 0, 0, 0, 0, 253>>,
          <<254, 254, 224, 148, 4, 3, 1, 253>>,
          <<254, 254, 224, 148, 28, 0, 1, 253>>,
          <<254, 254, 0, 148, 0, 0, 0, 80, 3, 0, 253>>,
          <<254, 254, 148, 224, 4, 1, 253>>,
          <<1, 2>>,
          <<254, 254, 224>>}

FragSeqs(brand) == UNION {[1..n -> Frags(brand)] : n \in 1..MaxFrags}

\* The frequencies given to setFreqCmd: 1 to 12 digits.
Freqs ==
    {"0", "1", "7074000", "14074000", "999999999", "1000000000", "1296100000",
     "9999999999", "10000000000", "99999999999", "100000000000"}

\* The stream the pieces make.
RECURSIVE Concat(_, _)
Concat(fs, empty) == IF fs = <<>> THEN empty ELSE Head(fs) \o Concat(Tail(fs), empty)

Stream == Concat(frags, EmptyBuffer(protocol))

CodecInit ==
    /\ config \in [brand : {"yaesu", "kenwood", "icom"}, pttEnabled : {FALSE},
                    port : {"/dev/ttyUSB0"}, mock : {FALSE}]
    /\ phase = "run"
    /\ state \in {[InitialState EXCEPT !.connected = TRUE],
                  [InitialState EXCEPT !.connected = TRUE, !.freq = "3573000",
                                       !.lastUpdate = 1]}
    /\ now = 2
    /\ streams = {1}
    /\ sseClients = <<1>>
    /\ emitted = <<>>
    /\ sent = NoWrites
    /\ views = [NoViews EXCEPT ![1] = <<InitEvent(state)>>]
    /\ buffer = EmptyBuffer(protocol)
    /\ serialPort = "open"
    /\ pollTimer = 1
    /\ liveTimers = {1}
    /\ reconnectTimers = 0
    /\ wrote = <<>>
    /\ returned = "none"
    /\ http = NoHttp
    /\ frags = <<>>
    /\ cut = 0
    /\ hz = "none"
    /\ pc = "idle"
    /\ base = state
    /\ trace = <<>>

\* The radio sends a stream made of the pieces fs.
ChooseFrags ==
    /\ pc = "idle"
    /\ \E fs \in FragSeqs(protocol) : frags' = fs
    /\ pc' = "ready"
    /\ UNCHANGED <<config, phase, state, now, streams, sseClients, emitted, sent, views,
                   buffer, serialPort, pollTimer, liveTimers, reconnectTimers,
                   wrote, returned, http, cut, hz, base, trace>>

\* The stream is the frame protocol.setFreqCmd(f) builds.
EncodeFreq ==
    /\ pc = "idle"
    /\ \E f \in Freqs : hz' = f /\ frags' = SetFreqCmd(protocol, f)
    /\ pc' = "ready"
    /\ UNCHANGED <<config, phase, state, now, streams, sseClients, emitted, sent, views,
                   buffer, serialPort, pollTimer, liveTimers, reconnectTimers,
                   wrote, returned, http, cut, base, trace>>

\* The whole stream arrives in one 'data' event.
FeedWhole ==
    /\ pc = "ready"
    /\ Data(Stream)
    /\ trace' = trace \o Decoded(Stream).acc.ev
    /\ cut' = Len(Stream)
    /\ pc' = "done"
    /\ UNCHANGED <<frags, hz, base>>

\* The first k bytes arrive in one 'data' event.
FeedFirst ==
    /\ pc = "ready"
    /\ \E k \in 1..(Len(Stream) - 1) :
          /\ Data(SubSeq(Stream, 1, k))
          /\ trace' = trace \o Decoded(SubSeq(Stream, 1, k)).acc.ev
          /\ cut' = k
    /\ pc' = "half"
    /\ UNCHANGED <<frags, hz, base>>

\* The rest arrives in the next 'data' event.
FeedSecond ==
    /\ pc = "half"
    /\ Data(SubSeq(Stream, cut + 1, Len(Stream)))
    /\ trace' = trace \o Decoded(SubSeq(Stream, cut + 1, Len(Stream))).acc.ev
    /\ pc' = "done"
    /\ UNCHANGED <<frags, hz, base, cut>>

CodecNext == ChooseFrags \/ EncodeFreq \/ FeedWhole \/ FeedFirst \/ FeedSecond

SpecCodec == CodecInit /\ [][CodecNext]_vars

----------------------------------------------------------------------------
(* The mode reports alone: one report of a mode code, of the table or     *)
(* not, is delivered to parseResponse as the streams above are.            *)

\* The mode codes a radio may report: text dialects one character, CI-V
\* one byte.
ModeCodes(brand) ==
    IF brand = "icom" THEN (0..10) \cup {23, 42, 255}
    ELSE {"0", "1", "2", "3", "4", "5", "6", "7", "8", "9",
          "A", "B", "C", "D", "E", "F", "Z"}

\* The kinds of report that carry a mode: the mode report and the extended
\* status report of the text dialects; CI-V commands 04 and 01.
ModeKinds(brand) == IF brand = "icom" THEN {4, 1} ELSE {"MD", "IF"}

\* The bytes of a report of kind kind with mode code code.
ModeReport(brand, kind, code) ==
    IF brand = "icom" THEN <<254, 254, controllerAddr, civAddr, kind, code, 1, 253>>
    ELSE IF brand = "yaesu"
    THEN IF kind = "MD" THEN "MD0" \o code \o ";"
         ELSE "IF001007074000+000000" \o code \o "00000;"
    ELSE IF kind = "MD" THEN "MD" \o code \o ";"
         ELSE "IF000070740000000000000000000" \o code \o "0000000;"

\* The radio sends one mode report.
ChooseMode ==
    /\ pc = "idle"
    /\ \E kind \in ModeKinds(config.brand) : \E code \in ModeCodes(config.brand) :
          frags' = <<ModeReport(config.brand, kind, code)>>
    /\ pc' = "ready"
    /\ UNCHANGED <<config, phase, state, now, streams, sseClients, emitted, sent, views,
                   buffer, serialPort, pollTimer, liveTimers, reconnectTimers,
                   wrote, returned, http, cut, hz, base, trace>>

ModeNext == ChooseMode \/ FeedWhole \/ FeedFirst \/ FeedSecond

SpecMode == CodecInit /\ [][ModeNext]_vars

----------------------------------------------------------------------------
(* The frames that carry no report: one frame that is too short for its   *)
(* command, of a command the parser does not know, or no frame at all, is  *)
(* delivered to parseResponse as the streams above are.                    *)

\* Frames without a report: a known command without its value or with a
\* part of it, an unknown command, a lone terminator; for CI-V also a
\* frame below the minimum length, an unknown sub-command, stray bytes.
ShortFrames(brand) ==
    IF brand = "yaesu"
    THEN {"FA;", "FA1;", "MD0;", "MD;", "TX;", "IF;", "IF001007074000+0000002;",
          "ZZ;", "AI0;", ";"}
    ELSE IF brand = "kenwood"
    THEN {"FA;", "FA1;", "MD;", "TX;", "IF;", "IF00007074000;", "ZZ;", "AI0;", ";"}
    ELSE {<<254, 254, 224, 148, 253>>,
          <<254, 254, 224, 148, 3, 253>>,
          <<254, 254, 224, 148, 3, 0, 64, 7, 20, 253>>,
          <<254, 254, 224, 148, 4, 253>>,
          <<254, 254, 224, 148, 28, 253>>,
          <<254, 254, 224, 148, 28, 0, 253>>,
          <<254, 254, 224, 148, 28, 1, 1, 253>>,
          <<254, 254, 224, 148, 25, 0, 253>>,
          <<254, 254, 253>>,
          <<253>>,
          <<1, 2, 3>>}

\* The radio sends one such frame.
ChooseShort ==
    /\ pc = "idle"
    /\ \E f \in ShortFrames(protocol) : frags' = <<f>>
    /\ pc' = "ready"
    /\ UNCHANGED <<config, phase, state, now, streams, sseClients, emitted, sent, views,
                   buffer, serialPort, pollTimer, liveTimers, reconnectTimers,
                   wrote, returned, http, cut, hz, base, trace>>

ShortNext == ChooseShort \/ FeedWhole \/ FeedFirst \/ FeedSecond

SpecShort == CodecInit /\ [][ShortNext]_vars

----------------------------------------------------------------------------
(* Properties of the bridge (Spec).                                        *)

\* A POST /ptt whose body asks for PTT on was served with PTT disabled.
PttOnWhileDisabled ==
    /\ http.path = "/ptt"
    /\ ~config.pttEnabled
    /\ http.body.parsed
    /\ Truthy(http.body.ptt)

\* C1: with pttEnabled false, a POST /ptt whose ptt value is true is
\* answered 403 'PTT disabled in configuration' and the handler writes
\* nothing to the serial port, whatever the state of the port.
C1_PttOnRefusedWhenDisabled ==
    PttOnWhileDisabled =>
        /\ http.status = 403
        /\ http.reply = "PTT disabled in configuration"
        /\ wrote = <<>>

\* The request is refused while the port is open and a write was possible.
C1_Witness ==
    /\ PttOnWhileDisabled
    /\ http.status = 403
    /\ serialPort = "open"
    /\ config.brand = "icom"

\* The store after the update events evs, from the snapshot snap.
RECURSIVE Apply(_, _)
Apply(snap, evs) ==
    IF evs = <<>> THEN snap
    ELSE Apply([snap EXCEPT ![Head(evs).prop] = Head(evs).value], Tail(evs))

\* C3: a GET /stream connection gets exactly the init event with the
\* snapshot of the store at connect time and is registered by the same
\* handler; from then on every handler that changes connected, freq, mode
\* or ptt writes to every subscriber that stays registered the update
\* events of exactly these changes, once each and in the order they
\* occurred; nothing else is written to a response.
C3_InitThenEveryChange ==
    [][/\ \A c \in streams' \ streams :
             /\ sent'[c] = <<InitEvent(state)>>
             /\ c \in Members(sseClients') \ Members(sseClients)
       /\ \A c \in Members(sseClients) \cap Members(sseClients') :
             /\ sent'[c] = emitted'
             /\ \A i \in DOMAIN sent'[c] : sent'[c][i].type = "update"
             /\ Apply(InitEvent(state), emitted') = InitEvent(state')
       /\ \A c \in Clients \ (Members(sseClients) \cup streams') : sent'[c] = <<>>
      ]_vars

\* Two subscribers both received the two updates of one decoded chunk.
C3_Witness ==
    /\ Len(sseClients) = 2
    /\ Len(emitted) = 2
    /\ \A c \in Members(sseClients) : sent[c] = emitted
    /\ state.connected

LostEvent == UpdateEvent("connected", FALSE)

\* C4: the transport is never given up: after a failed open and after the
\* close of the port a reconnect timer is pending until the next attempt
\* starts, and the handler of an error or close event (the one that
\* announces connected = false) leaves a reconnect timer pending.
C4_ReconnectAlwaysScheduled ==
    (phase = "run" /\ config.brand # "mock") =>
        /\ serialPort \in {"failed", "closed"} => reconnectTimers > 0
        /\ emitted = <<LostEvent>> => reconnectTimers > 0

\* C5: an update event connected = false is written to a subscriber only
\* by a handler that found connected true, so that each loss of the port is
\* announced once and never while the store already says disconnected.
C5_LossAnnouncedOnce ==
    [][\A c \in Clients :
          (\E i \in DOMAIN sent'[c] : sent'[c][i] = LostEvent) => state.connected
      ]_vars

----------------------------------------------------------------------------
(* Properties of the codecs (SpecCodec).                                   *)

\* Each event of evs changes the field it names: its value differs from
\* the one the store st held when it was emitted.
RECURSIVE Distinct(_, _)
Distinct(st, evs) ==
    IF evs = <<>> THEN TRUE
    ELSE /\ st[Head(evs).prop] # Head(evs).value
         /\ Distinct([st EXCEPT ![Head(evs).prop] = Head(evs).value], Tail(evs))

IsPrefix(a, b) == Len(a) <= Len(b) /\ a = SubSeq(b, 1, Len(a))

IsSuffix(a, b) == Len(a) <= Len(b) /\ a = SubSeq(b, Len(b) - Len(a) + 1, Len(b))

\* C2: a decoded report is stored and broadcast only when its value differs
\* from the stored one: every update a stream produces changes the field it
\* names, a stream whose reports all repeat the stored values leaves the
\* whole store, lastUpdate included, as it was, and the subscriber is sent
\* only events of that kind.
C2_OnlyChangesNotify ==
    (pc \in {"half", "done"}) =>
        /\ Distinct(base, trace)
        /\ trace = <<>> => state = base
        /\ IsSuffix(emitted, trace)
        /\ \A c \in Clients : IsPrefix(sent[c], emitted)

\* The same report arrived twice, in two chunks; the second sent nothing.
C2_Witness ==
    /\ pc = "done"
    /\ Len(frags) = 2
    /\ frags[1] = frags[2]
    /\ cut = Len(frags[1])
    /\ Len(trace) = 1
    /\ emitted = <<>>
    /\ sseClients = <<1>>

\* C6: no decoded report takes freq to 0: whenever freq changes, the new
\* value is greater than 0, so a nonzero freq never returns to 0.
C6_ZeroFreqNeverStored ==
    [][state'.freq # state.freq => GtZero(state'.freq)]_vars

\* Reports of a zero frequency by FA / IF or by CI-V 03 / 00.
ZeroFreqFrags ==
    {"FA000000000;", "IF001000000000+000000300000;", "FA00000000000;",
     "IF00000000000000000000000000030000000;"}

IcomZeroFreqFrags ==
    {<<254, 254, 224, 148, 3, 0, 0, 0, 0, 0, 253>>,
     <<254, 254, 224, 148, 0, 0, 0, 0, 0, 0, 253>>}

\* A zero-frequency report was decoded last and freq is still nonzero.
C6_Witness ==
    /\ pc = "done"
    /\ Len(frags) = 2
    /\ IF config.brand = "icom" THEN frags[2] \in IcomZeroFreqFrags
       ELSE frags[2] \in ZeroFreqFrags
    /\ state.freq = "14074000"

\* The digits of the frequency field of setFreqCmd.
FieldDigits(brand) == IF brand = "yaesu" THEN 9 ELSE IF brand = "kenwood" THEN 11 ELSE 10

\* The frame of setFreqCmd(hz), for hz >= 1 within the field, was delivered.
EncodedDelivered ==
    /\ pc = "done"
    /\ hz \notin {"none", "0"}
    /\ Len(hz) <= FieldDigits(config.brand)

\* C7 as claimed: for every codec, decoding setFreqCmd(f) sets freq to f.
C7_RoundTripEveryCodec == EncodedDelivered => state.freq = hz

\* C7 as amended: the text codecs decode setFreqCmd(f) to f; the
\* Icom frame of setFreqCmd(f) is addressed to the radio and changes
\* nothing, and its five data bytes are the packed decimal of f.
C7_RoundTripTextCodecs ==
    EncodedDelivered =>
        IF config.brand = "icom"
        THEN /\ state = base
             /\ trace = <<>>
             /\ BcdToFreq(SubSeq(frags[1], 6, 10)) = hz
        ELSE state.freq = hz

\* The widest Kenwood frequency made the round trip, split in two chunks.
C7_Witness ==
    /\ EncodedDelivered
    /\ config.brand = "kenwood"
    /\ hz = "99999999999"
    /\ cut < Len(Stream)
    /\ state.freq = hz

\* parseResponse on the whole stream at once, from the store at the start.
Whole ==
    ParseResponse(config.brand, EmptyBuffer(config.brand),
                  [st |-> base, ev |-> <<>>], Stream)

\* C8: a stream delivered in two chunks leaves the same store, the same
\* sequence of updates and the same residual buffer as the stream delivered
\* in one chunk, wherever it is split.
C8_SplitEqualsWhole ==
    pc = "done" =>
        /\ state = Whole.acc.st
        /\ trace = Whole.acc.ev
        /\ buffer = Whole.buffer

\* Decimal digit k (0 the least significant) of a numeral.
DigitOf(n, k) == IF k < Len(n) THEN DigitVal(SubSeq(n, Len(n) - k, Len(n) - k)) ELSE 0

\* C9: the five data bytes of the Icom frame of setFreqCmd(f), f of at most
\* ten digits, decode with _bcdToFreq to f, and byte i holds digit 2i in its
\* low nibble and digit 2i + 1 in its high nibble.
C9_BcdRoundTrip ==
    (config.brand = "icom" /\ hz # "none" /\ Len(hz) <= 10) =>
        LET bcd == SubSeq(frags[1], 6, 10)
        IN  /\ BcdToFreq(bcd) = hz
            /\ \A i \in 0..4 :
                  /\ bcd[i + 1] % 16 = DigitOf(hz, 2 * i)
                  /\ bcd[i + 1] \div 16 = DigitOf(hz, 2 * i + 1)

\* A ten-digit frequency with ten different digits was encoded.
C9_Witness ==
    /\ config.brand = "icom"
    /\ hz = "1296100000"
    /\ pc = "ready"
    /\ frags[1][10] = 18

\* A complete CI-V frame for another address.
Foreign(f) ==
    /\ Len(f) >= 6
    /\ f[1] = 254 /\ f[2] = 254
    /\ f[3] # controllerAddr
    /\ f[Len(f)] = 253

\* parseResponse on the pieces fs at once, from the store at the start.
ParseAll(fs) ==
    ParseResponse("icom", <<>>, [st |-> base, ev |-> <<>>], Concat(fs, <<>>))

Without(fs, i) == SubSeq(fs, 1, i - 1) \o SubSeq(fs, i + 1, Len(fs))

\* C10: a CI-V frame for another address, arriving when no frame is
\* pending, has no effect: the store, the updates and the residual buffer
\* are those of the same chunk without that frame, so the frames after it
\* are decoded as if it were absent.
C10_ForeignFrameIgnored ==
    (config.brand = "icom" /\ pc = "done" /\ cut = Len(Stream)) =>
        \A i \in 1..Len(frags) :
            (Foreign(frags[i]) /\ ParseAll(SubSeq(frags, 1, i - 1)).buffer = <<>>) =>
                /\ state = ParseAll(Without(frags, i)).acc.st
                /\ trace = ParseAll(Without(frags, i)).acc.ev
                /\ buffer = ParseAll(Without(frags, i)).buffer

\* A frequency report for address 00 came first; the report for us that
\* followed it in the same chunk was decoded.
C10_Witness ==
    /\ config.brand = "icom"
    /\ pc = "done"
    /\ cut = Len(Stream)
    /\ Len(frags) = 2
    /\ Foreign(frags[1])
    /\ frags[1][5] = 0
    /\ trace = <<UpdateEvent("freq", "14074000")>>

\* What the well-formed Yaesu reports of the streams say, read off the CAT
\* reference: FA<9 digits>; is the VFO-A frequency in Hz, MD0<code>; the
\* mode (3 = CW, C = DATA-USB), TX<digit>; the transmit status.
YaesuReports ==
    ("FA014074000;" :> <<[prop |-> "freq", value |-> "14074000"]>>) @@
    ("FA000000000;" :> <<[prop |-> "freq", value |-> "0"]>>) @@
    ("MD03;" :> <<[prop |-> "mode", value |-> "CW"]>>) @@
    ("TX1;" :> <<[prop |-> "ptt", value |-> TRUE]>>) @@
    ("TX0;" :> <<[prop |-> "ptt", value |-> FALSE]>>) @@
    ("FA014074000;MD03;TX0;" :>
        <<[prop |-> "freq", value |-> "14074000"], [prop |-> "mode", value |-> "CW"],
          [prop |-> "ptt", value |-> FALSE]>>) @@
    ("FA007074000;MD0C;" :>
        <<[prop |-> "freq", value |-> "7074000"],
          [prop |-> "mode", value |-> "DATA-USB"]>>)

\* The reports of the pieces fs, in order.
RECURSIVE ReportsOf(_)
ReportsOf(fs) == IF fs = <<>> THEN <<>> ELSE YaesuReports[Head(fs)] \o ReportsOf(Tail(fs))

\* The value of the last report of field prop that counts (a frequency
\* counts when it is not zero), or dflt when there is none.
LastReported(reps, prop, dflt) ==
    LET at == {i \in 1..Len(reps) : reps[i].prop = prop /\ (prop = "freq" => reps[i].value # "0")}
    IN  IF at = {} THEN dflt ELSE reps[CHOOSE i \in at : \A j \in at : j <= i].value

\* A stream of well-formed Yaesu reports was delivered from an empty buffer.
YaesuReportsDelivered ==
    /\ config.brand = "yaesu"
    /\ pc = "done"
    /\ hz = "none"
    /\ \A i \in 1..Len(frags) : frags[i] \in DOMAIN YaesuReports

\* C11: after a stream of well-formed Yaesu reports FA<9 digits>;
\* MD0<code>; TX<digit>; freq is the last nonzero reported frequency, mode
\* the label of the last reported code and ptt true exactly when the last
\* TX digit is not 0 (each as it was when no such report came); after
\* FA014074000;MD03;TX0; they are 14074000, CW and false.
C11_YaesuReportsDecoded ==
    YaesuReportsDelivered =>
        /\ state.freq = LastReported(ReportsOf(frags), "freq", base.freq)
        /\ state.mode = LastReported(ReportsOf(frags), "mode", base.mode)
        /\ state.ptt = LastReported(ReportsOf(frags), "ptt", base.ptt)
        /\ frags[Len(frags)] = "FA014074000;MD03;TX0;" =>
               (state.freq = "14074000" /\ state.mode = "CW" /\ state.ptt = FALSE)
        /\ buffer = ""

\* TX1; and then FA014074000;MD03;TX0; arrived, cut inside the frequency.
C11_Witness ==
    /\ YaesuReportsDelivered
    /\ frags = <<"TX1;", "FA014074000;MD03;TX0;">>
    /\ cut = 9
    /\ state.freq = "14074000"
    /\ state.mode = "CW"
    /\ ~state.ptt
    /\ base.freq = "3573000"
    /\ Len(trace) = 4

----------------------------------------------------------------------------
(* Properties of the command path (Spec).                                  *)

\* C12: a call of sendToRadio while the port is not open (null, opening,
\* open refused, closed) returns false, gives nothing to serialPort.write
\* and leaves RadioState as it was, and the handler completes with its
\* answer; a call returns true only with the port open, and then exactly
\* the frame was written.
C12_SendToRadioWhenNotOpen ==
    [][/\ (returned' # "none" /\ serialPort # "open") =>
             /\ returned' = "false"
             /\ wrote' = <<>>
             /\ state' = state
             /\ http'.status = 200
       /\ returned' = "true" => (serialPort = "open" /\ Len(wrote') = 1)
       /\ returned' # "none" => (serialPort' = serialPort /\ state' = state)
      ]_vars

\* A PTT-off command was handed to sendToRadio with the port closed and a
\* reconnect pending.
C12_Witness ==
    /\ returned = "false"
    /\ serialPort = "closed"
    /\ reconnectTimers = 1
    /\ wrote = <<>>
    /\ http.status = 200

\* The PTT-on frame of each radio family, from its CAT / CI-V reference:
\* TX1; for Yaesu and Kenwood, FE FE <radio> E0 1C 00 01 FD for Icom.
PttOnFrame ==
    ("yaesu" :> "TX1;") @@ ("kenwood" :> "TX1;") @@
    ("icom" :> <<254, 254, 148, 224, 28, 0, 1, 253>>)

\* A POST /ptt asking for PTT on was served with PTT enabled, port open.
PttOnWhileEnabledAndOpen ==
    /\ http.path = "/ptt"
    /\ config.pttEnabled
    /\ http.body.parsed
    /\ Truthy(http.body.ptt)
    /\ serialPort = "open"

\* C13: with pttEnabled true and the port open, a POST /ptt with ptt true
\* gives serialPort.write exactly one frame, the PTT-on frame of the
\* active codec, and is answered 200 {success:true}.
C13_PttOnWrittenOnce ==
    PttOnWhileEnabledAndOpen =>
        /\ wrote = <<PttOnFrame[config.brand]>>
        /\ returned = "true"
        /\ http.status = 200
        /\ http.reply = "success"

\* The Icom PTT-on frame was written for such a request.
C13_Witness ==
    /\ PttOnWhileEnabledAndOpen
    /\ config.brand = "icom"
    /\ Len(wrote) = 1
    /\ wrote[1][7] = 1

\* C14: setFreqCmd(hz) returns no frame when hz has more digits than the
\* frequency field of the codec holds (9 for Yaesu, 11 for Kenwood, 10 for
\* Icom).
C14_OutOfRangeGivesNone ==
    (hz # "none" /\ Len(hz) > FieldDigits(config.brand)) => frags = <<>>

\* The mode table of the active dialect; the mock protocol has none.
ModeTable(brand) ==
    IF brand = "yaesu" THEN YAESU_MODES
    ELSE IF brand = "kenwood" THEN KENWOOD_MODES
    ELSE IF brand = "icom" THEN ICOM_MODES
    ELSE <<>>

\* The label, as given or in upper case, is a label of the table.
IsLabel(brand, m) ==
    \E c \in DOMAIN ModeTable(brand) : ModeTable(brand)[c] \in {m, ToUpperCase(m)}

\* C15: a POST /mode whose label is not in the mode table of the active
\* dialect, as given or in upper case, writes nothing to the serial port
\* and is answered 200 {success:true}.
C15_UnknownModeDropped ==
    (/\ http.path = "/mode"
     /\ http.body.parsed
     /\ Truthy(http.body.mode)
     /\ ~IsLabel(config.brand, http.body.mode)) =>
        /\ wrote = <<>>
        /\ http.status = 200
        /\ http.reply = "success"

\* The body of the request that was served has a freq value.
HasFreqValue(body) == body.parsed /\ body.freq # "undefined"

\* POST /freq was served by the step.
FreqServed == http'.path = "/freq"

\* C16 as claimed: a POST /freq without a freq value is answered 400
\* with an error, writes nothing and changes nothing in RadioState; one
\* with a freq value is answered {success:true}.
C16_MissingFreqOnly ==
    [][FreqServed =>
          /\ state' = state
          /\ IF HasFreqValue(http'.body)
             THEN http'.status = 200 /\ http'.reply = "success"
             ELSE http'.status = 400 /\ http'.reply = "Missing freq" /\ wrote' = <<>>
      ]_vars

\* C16 as amended: a POST /freq whose body is absent, not JSON, has no freq
\* or has a falsy freq (the number 0) is answered 400 'Missing freq', calls
\* no sendToRadio and writes nothing; one with a nonzero freq is answered
\* 200 {success:true}; neither changes RadioState.
C16_FalsyFreqRefused ==
    [][FreqServed =>
          /\ state' = state
          /\ IF HasFreqValue(http'.body) /\ http'.body.freq # "0"
             THEN http'.status = 200 /\ http'.reply = "success"
             ELSE /\ http'.status = 400
                  /\ http'.reply = "Missing freq"
                  /\ wrote' = <<>>
                  /\ returned' = "none"
      ]_vars

\* A request for the frequency 0 was refused while the port was open.
C16_Witness ==
    /\ http.path = "/freq"
    /\ http.body.freq = "0"
    /\ http.status = 400
    /\ serialPort = "open"
    /\ state.connected

----------------------------------------------------------------------------
(* Properties of the subscriber set (Spec).                                *)

\* C17: a subscriber leaves sseClients in the very handler in which a
\* write to it fails or its request closes; a response that is not in the
\* set is written only by a new GET /stream, comes back into the set only
\* that way, and the set holds each open response at most once.
C17_SubscriberReleased ==
    [][/\ \A c \in Members(sseClients) :
             (emitted' # <<>> /\ sent'[c] # emitted') => c \notin Members(sseClients')
       /\ \A c \in streams \ streams' : c \notin Members(sseClients')
       /\ \A c \in Clients \ Members(sseClients) :
             \/ c \in streams' \ streams
             \/ sent'[c] = <<>> /\ c \notin Members(sseClients')
       /\ Cardinality(Members(sseClients')) = Len(sseClients')
       /\ Members(sseClients') \subseteq streams'
      ]_vars

\* A change was broadcast after the write to response 1 had failed: its
\* request is still open, it is out of the set and was not written.
C17_Witness ==
    /\ streams = {1, 2}
    /\ sseClients = <<2>>
    /\ Len(emitted) = 1
    /\ sent[1] = <<>>
    /\ sent[2] = emitted

\* C18: in a handler that broadcasts, every subscriber is written the
\* events up to its own first failing write, whatever happens to the
\* others: exactly the subscribers that were written every event stay in
\* the set, in the order they had.
C18_FailureDoesNotBlockOthers ==
    [][emitted' # <<>> =>
          /\ \A c \in Members(sseClients) :
                /\ IsPrefix(sent'[c], emitted')
                /\ c \in Members(sseClients') <=> sent'[c] = emitted'
          /\ sseClients' = SelectSeq(sseClients, LAMBDA c : sent'[c] = emitted')
      ]_vars

\* Of two subscribers one failed at the second event of a chunk; the other
\* was written both events and is the one left in the set.
C18_Witness ==
    /\ streams = {1, 2}
    /\ Len(emitted) = 2
    /\ Len(sent[1]) = 1
    /\ sent[2] = emitted
    /\ sseClients = <<2>>

----------------------------------------------------------------------------
(* Properties of the serial engine (Spec).                                 *)

OpenRefused == serialPort = "opening" /\ serialPort' = "failed"

ErrorEvent == serialPort = "open" /\ serialPort' = "open" /\ emitted' = <<LostEvent>>

CloseEvent == serialPort = "open" /\ serialPort' = "closed"

\* C20: a transport fault does not end the process and changes none of
\* freq, mode, ptt, lastUpdate: the bridge goes on serving, the last
\* values are kept, and the only thing told to the subscribers is
\* connected = false (nothing at all for a refused open).
C20_FaultsKeepLastValues ==
    [][(OpenRefused \/ ErrorEvent \/ CloseEvent) =>
          /\ phase' = "run"
          /\ state' = [state EXCEPT !.connected = FALSE]
          /\ emitted' = IF OpenRefused THEN <<>> ELSE <<LostEvent>>
          /\ streams' = streams
          /\ buffer' = buffer
      ]_vars

\* An error event on the open port of a radio whose frequency, mode and
\* PTT had been decoded: they are kept, with connected false.
C20_Witness ==
    /\ serialPort = "open"
    /\ emitted = <<LostEvent>>
    /\ ~state.connected
    /\ state.freq = "14074000"
    /\ state.mode = "CW"
    /\ state.ptt
    /\ phase = "run"

----------------------------------------------------------------------------
(* Properties of the life of the process (SpecLife).                       *)

\* The configuration is faulty: no serial port path, or a brand for which
\* initSerial has no protocol (a simulation asked for with --mock needs
\* neither).
ConfigFault ==
    ~config.mock /\ (config.port = "" \/ ProtocolOf(config.brand) = "none")

\* A faulty configuration never gets as far as a serial port: the process
\* is starting, or has ended.
ConfigFaultStopsStart ==
    ConfigFault => (phase # "run" /\ serialPort = "null")

\* C21: a configuration fault (a brand that is none of yaesu, kenwood,
\* elecraft, icom, mock, or no serial port path) ends the process at
\* startup before a serial port is created, and nothing else ends it: the
\* process has exited with a failure only when the configuration is faulty.
C21_OnlyConfigFaultsExit ==
    /\ ConfigFaultStopsStart
    /\ phase = "exited" => (ConfigFault /\ serialPort = "null")

\* C22: in simulation mode (brand mock, or --mock) the store holds the
\* seed, connected with 14074000 Hz and USB, from the start on; there is no
\* serial port, no poll interval and no reconnect timer; and whatever the
\* requests served, nothing is written to a transport and the store keeps
\* the seed.
C22_MockWritesNothing ==
    (protocol = "mock" /\ phase = "run") =>
        /\ state = [InitialState EXCEPT !.connected = TRUE,
                                        !.freq = "14074000", !.mode = "USB"]
        /\ serialPort = "null"
        /\ pollTimer = 0
        /\ liveTimers = {}
        /\ reconnectTimers = 0
        /\ wrote = <<>>
        /\ returned = "none"

\* The simulation served POST /freq {freq: 14074000} with 200 for a
\* subscriber that is connected.
C22_Witness ==
    /\ protocol = "mock"
    /\ phase = "run"
    /\ http.path = "/freq"
    /\ http.status = 200
    /\ http.body.freq = "14074000"
    /\ sseClients = <<1>>
    /\ wrote = <<>>
    /\ state.freq = "14074000"

\* The step is the shutdown handler, run for SIGINT or SIGTERM.
ShutdownSignal ==
    /\ phase \in {"boot", "run"}
    /\ \/ serialPort = "open" /\ serialPort' = "closing"
       \/ serialPort # "open" /\ phase' = "stopped"

\* The shutdown handler has run.
ShuttingDown == serialPort = "closing" \/ phase = "stopped"

\* The shutdown handler leaves no poll interval running, once it has run
\* no handler writes to the serial port, and a process whose port is open
\* stops only after that port has closed.
ShutdownStopsPolling ==
    [][/\ ShutdownSignal => liveTimers' = {}
       /\ ShuttingDown => wrote' = <<>>
       /\ (serialPort = "open" /\ phase' = "stopped") => FALSE
       /\ (serialPort = "closing" /\ serialPort' = "closed") => phase' = "stopped"
      ]_vars

\* C23: on SIGINT or SIGTERM the poll timer is cancelled and the serial
\* port, if open, is closed before the process exits, and after the signal
\* is handled no poll command is written: the handler leaves no interval
\* running, nothing is written once it has run, and the process has
\* exited from shutdown only with its port closed, when it had one open.
C23_ShutdownClosesPort ==
    [][/\ ShutdownSignal => liveTimers' = {}
       /\ ShuttingDown => wrote' = <<>>
       /\ phase' = "stopped" => serialPort' \notin {"open", "closing"}
      ]_vars

\* The step is a poll tick that wrote to the serial port.
PollWrite == wrote' # <<>> /\ returned' = "none"

\* C24: the handler of a close event and the handler of an error event of
\* the open port both cancel the poll timer, set connected to false, tell
\* the subscribers and schedule a reconnect; and from then until the next
\* successful open, that is while connected is false, no poll command is
\* written.
C24_FaultStopsPolling ==
    [][/\ (ErrorEvent \/ CloseEvent) =>
             /\ pollTimer \notin liveTimers'
             /\ ~state'.connected
             /\ emitted' = <<LostEvent>>
             /\ reconnectTimers' = reconnectTimers + 1
       /\ ~state.connected => ~PollWrite
      ]_vars

\* The close event alone: its handler does all of that, and while the port
\* is closed no poll command is written.
CloseStopsPolling ==
    [][/\ CloseEvent =>
             /\ pollTimer \notin liveTimers'
             /\ ~state'.connected
             /\ emitted' = <<LostEvent>>
             /\ reconnectTimers' = reconnectTimers + 1
       /\ serialPort # "open" => ~PollWrite
      ]_vars

\* The poll of each dialect: frequency read, mode read, transmit-status
\* read.
ExpectedPoll ==
    [yaesu   |-> <<"FA;", "MD0;", "TX;">>,
     kenwood |-> <<"FA;", "MD;", "TX;">>,
     icom    |-> << <<254, 254, 148, 224, 3, 253>>,
                    <<254, 254, 148, 224, 4, 253>>,
                    <<254, 254, 148, 224, 28, 0, 253>> >>]

\* a is b with some of its elements left out.
IsSubsequence(a, b) ==
    \E keep \in SUBSET (1..Len(b)) :
        /\ Cardinality(keep) = Len(a)
        /\ \A i \in 1..Len(a) :
              a[i] = b[CHOOSE k \in keep : Cardinality({j \in keep : j <= k}) = i]

\* C25: a poll tick writes only while the current port is open, and what
\* it writes is the poll of the active dialect (frequency read, mode read,
\* transmit-status read) in that order, less the writes that failed; the
\* tick changes neither the store nor the port, schedules no reconnect and
\* stops no interval, and an interval stops only when the port stops being
\* open.
C25_PollWritesInOrder ==
    [][/\ PollWrite =>
             /\ serialPort = "open"
             /\ IsSubsequence(wrote', ExpectedPoll[protocol])
             /\ state' = state
             /\ serialPort' = serialPort
             /\ reconnectTimers' = reconnectTimers
             /\ liveTimers' = liveTimers
             /\ emitted' = <<>>
       /\ (pollTimer \in liveTimers /\ pollTimer \notin liveTimers') =>
             serialPort' # "open"
      ]_vars

\* A tick whose mode read failed: the other two commands were written, the
\* store still says connected, the interval is alive, no reconnect waits.
C25_Witness ==
    /\ protocol = "yaesu"
    /\ wrote = <<"FA;", "TX;">>
    /\ returned = "none"
    /\ serialPort = "open"
    /\ state.connected
    /\ pollTimer \in liveTimers
    /\ reconnectTimers = 0

\* A tick none of whose writes failed.
C25_FullPoll ==
    /\ protocol = "icom"
    /\ wrote = ExpectedPoll.icom
    /\ serialPort = "open"

\* The step served an HTTP request.
HttpRequest == http'.path # ""

\* C26: no HTTP request changes the store, whichever the route (GET /,
\* GET /status, GET /stream, POST /freq, /mode, /ptt, an unknown path,
\* OPTIONS) and whether or not its command is written to the radio; and
\* GET /status answers 200 with the values the store holds: connected,
\* freq, mode, width, ptt, and lastUpdate as timestamp.
C26_HttpLeavesStore ==
    [][HttpRequest =>
          /\ state' = state
          /\ http'.path = "/status" =>
                /\ http'.status = 200
                /\ Len(http'.json) = 1
                /\ http'.json[1].connected = state.connected
                /\ http'.json[1].freq = state.freq
                /\ http'.json[1].mode = state.mode
                /\ http'.json[1].width = state.width
                /\ http'.json[1].ptt = state.ptt
                /\ http'.json[1].timestamp = state.lastUpdate
      ]_vars

\* POST /freq {freq: 14074000} was written to a radio whose frequency is
\* not known yet: the store still says 0.
C26_Witness ==
    /\ http.path = "/freq"
    /\ http.status = 200
    /\ wrote = <<"FA014074000;">>
    /\ returned = "true"
    /\ state.freq = "0"
    /\ state.connected

\* GET /status answered with a decoded frequency and its time.
C26_StatusServed ==
    /\ http.path = "/status"
    /\ http.json[1].freq = "14074000"
    /\ http.json[1].timestamp = 2
    /\ http.json[1].connected

\* The step served a command request while the port was not open.
DroppedCommand ==
    /\ http'.path \in {"/freq", "/mode", "/ptt"}
    /\ serialPort # "open"

\* C27: a command that arrives while the port is not open is dropped for
\* good. Its handler writes nothing; whatever is written later is written
\* by the handler of that moment, with the port open: the poll of a tick,
\* or the one frame of the request being served; and the handler of a
\* successful open writes nothing, so nothing kept from before is sent.
C27_DroppedNeverWritten ==
    [][/\ DroppedCommand => (wrote' = <<>> /\ returned' # "true")
       /\ wrote' # <<>> =>
             /\ serialPort = "open"
             /\ IF http'.path = ""
                THEN /\ returned' = "none"
                     /\ IsSubsequence(wrote', ExpectedPoll[protocol])
                ELSE /\ returned' = "true"
                     /\ wrote' = CommandOf(http')
       /\ (serialPort # "open" /\ serialPort' = "open") => wrote' = <<>>
      ]_vars

\* A radio that had reported its frequency lost its port; while the next
\* port is opening POST /freq {freq: 14074000} is answered 200 and dropped.
C27_Witness ==
    /\ serialPort = "opening"
    /\ state.freq = "14074000"
    /\ ~state.connected
    /\ http.path = "/freq"
    /\ http.body.freq = "14074000"
    /\ http.status = 200
    /\ returned = "false"
    /\ wrote = <<>>

----------------------------------------------------------------------------
(* More properties of the codecs (SpecCodec).                              *)

\* The store after the events evs, each taken as one assignment of the
\* field it names, with lastUpdate set to the time t of the handler.
RECURSIVE OneByOne(_, _, _)
OneByOne(st, evs, t) ==
    IF evs = <<>> THEN st
    ELSE OneByOne([st EXCEPT ![Head(evs).prop] = Head(evs).value,
                             !.lastUpdate = t], Tail(evs), t)

\* The value of the last event of evs that names prop.
LastValue(evs, prop) ==
    evs[CHOOSE i \in DOMAIN evs :
            /\ evs[i].prop = prop
            /\ \A j \in DOMAIN evs : (j > i) => evs[j].prop # prop].value

\* C28: every change updateState applies is one assignment of one of freq,
\* mode, ptt, with lastUpdate, followed by one update event that names the
\* field and the value: the store a handler leaves is the store it found
\* with its events applied one field at a time, nothing else changed; and
\* the store holds, for every field an event names, the value of the last
\* such event, so a snapshot taken once an event has been received is never
\* older than the event.
C28_SingleFieldSteps ==
    [][/\ \A i \in DOMAIN emitted' :
             /\ emitted'[i].type = "update"
             /\ emitted'[i].prop \in {"freq", "mode", "ptt"}
             /\ state'[emitted'[i].prop] = LastValue(emitted', emitted'[i].prop)
       /\ state' = OneByOne(state, emitted', now)
       /\ \A c \in Clients : IsPrefix(sent'[c], emitted')
      ]_vars

\* One chunk with a frequency, a mode and a PTT report gave three events,
\* one per field, all received by the subscriber.
C28_Witness ==
    /\ pc = "done"
    /\ Len(emitted) = 3
    /\ emitted[1].prop = "freq"
    /\ emitted[2].prop = "mode"
    /\ emitted[3].prop = "ptt"
    /\ sent[1] = emitted
    /\ state.freq = emitted[1].value
    /\ state.ptt

\* What the well-formed reports of the streams say, read off the CAT and
\* CI-V references. Yaesu IF carries the frequency in 9 digits after
\* IF001 and the mode code as its 22nd character, Kenwood IF the frequency
\* in 11 digits after IF and the mode code as its 30th character; a CI-V
\* frame 00 or 03 carries the frequency in BCD, lowest digits first, a
\* frame 04 the mode (3 = CW), a frame 1C 00 the transmit status.
BatchReports ==
    [yaesu |->
        YaesuReports @@
        ("IF001007074000+000000200000;" :>
            <<[prop |-> "freq", value |-> "7074000"], [prop |-> "mode", value |-> "USB"]>>) @@
        ("IF001000000000+000000300000;" :>
            <<[prop |-> "freq", value |-> "0"], [prop |-> "mode", value |-> "CW"]>>),
     kenwood |->
        ("FA00014074000;" :> <<[prop |-> "freq", value |-> "14074000"]>>) @@
        ("FA00000000000;" :> <<[prop |-> "freq", value |-> "0"]>>) @@
        ("MD3;" :> <<[prop |-> "mode", value |-> "CW"]>>) @@
        ("TX1;" :> <<[prop |-> "ptt", value |-> TRUE]>>) @@
        ("TX0;" :> <<[prop |-> "ptt", value |-> FALSE]>>) @@
        ("IF00007074000000000000000000020000000;" :>
            <<[prop |-> "freq", value |-> "7074000"], [prop |-> "mode", value |-> "USB"]>>) @@
        ("IF00000000000000000000000000030000000;" :>
            <<[prop |-> "freq", value |-> "0"], [prop |-> "mode", value |-> "CW"]>>),
     icom |->
        (<<254, 254, 224, 148, 3, 0, 64, 7, 20, 0, 253>> :>
            <<[prop |-> "freq", value |-> "14074000"]>>) @@
        (<<254, 254, 224, 148, 3, 0, 0, 0, 0, 0, 253>> :>
            <<[prop |-> "freq", value |-> "0"]>>) @@
        (<<254, 254, 224, 148, 0, 0, 64, 7, 7, 0, 253>> :>
            <<[prop |-> "freq", value |-> "7074000"]>>) @@
        (<<254, 254, 224, 148, 0, 0, 0, 0, 0, 0, 253>> :>
            <<[prop |-> "freq", value |-> "0"]>>) @@
        (<<254, 254, 224, 148, 4, 3, 1, 253>> :>
            <<[prop |-> "mode", value |-> "CW"]>>) @@
        (<<254, 254, 224, 148, 28, 0, 1, 253>> :>
            <<[prop |-> "ptt", value |-> TRUE]>>)]

\* The reports of the pieces fs of a dialect, in order.
RECURSIVE BatchOf(_, _)
BatchOf(brand, fs) ==
    IF fs = <<>> THEN <<>>
    ELSE BatchReports[brand][Head(fs)] \o BatchOf(brand, Tail(fs))

\* The updates a batch of reports is due, from the store st: one for each
\* report whose value is not the one held when its turn comes, a zero
\* frequency being no reading.
RECURSIVE UpdatesDue(_, _)
UpdatesDue(st, reps) ==
    IF reps = <<>> THEN <<>>
    ELSE LET r == Head(reps)
         IN  IF (r.prop = "freq" /\ r.value = "0") \/ st[r.prop] = r.value
             THEN UpdatesDue(st, Tail(reps))
             ELSE <<UpdateEvent(r.prop, r.value)>>
                     \o UpdatesDue([st EXCEPT ![r.prop] = r.value], Tail(reps))

\* A stream of well-formed reports arrived in one 'data' event, from an
\* empty buffer: one decode batch.
BatchDelivered ==
    /\ pc = "done"
    /\ hz = "none"
    /\ cut = Len(Stream)
    /\ \A i \in 1..Len(frags) : frags[i] \in DOMAIN BatchReports[config.brand]

\* C29: the reports of one decode batch are applied in arrival order, also
\* when several of them report the same field (FA and IF, CI-V 00 and 03):
\* after the batch freq and mode are those of the last report of each that
\* gives a reading, and the batch produced exactly one update for each
\* report whose value differed from the one held when its turn came.
C29_LastReportWins ==
    BatchDelivered =>
        /\ state.freq = LastReported(BatchOf(config.brand, frags), "freq", base.freq)
        /\ state.mode = LastReported(BatchOf(config.brand, frags), "mode", base.mode)
        /\ emitted = UpdatesDue(base, BatchOf(config.brand, frags))
        /\ IsPrefix(sent[1], emitted)
        /\ buffer = EmptyBuffer(config.brand)

\* FA 14074000 and then IF 7074000 USB in one batch: 7074000 is stored,
\* after an update for each of the two frequencies and one for the mode.
C29_Witness ==
    /\ config.brand = "yaesu"
    /\ BatchDelivered
    /\ frags = <<"FA014074000;", "IF001007074000+000000200000;">>
    /\ state.freq = "7074000"
    /\ state.mode = "USB"
    /\ Len(emitted) = 3
    /\ emitted[1].value = "14074000"
    /\ emitted[2].value = "7074000"

\* CI-V 00 with 7074000 and then 03 with 14074000 in one batch.
C29_IcomBatch ==
    /\ config.brand = "icom"
    /\ BatchDelivered
    /\ frags = << <<254, 254, 224, 148, 0, 0, 64, 7, 7, 0, 253>>,
                  <<254, 254, 224, 148, 3, 0, 64, 7, 20, 0, 253>> >>
    /\ state.freq = "14074000"
    /\ Len(emitted) = 2

----------------------------------------------------------------------------
(* Properties of the mode reports (SpecMode).                              *)

\* What a mode code with no table entry is shown as, for the CI-V codes of
\* the model: MODE_ and the code in hexadecimal.
IcomLiteral ==
    (9 :> "MODE_9") @@ (10 :> "MODE_a") @@ (42 :> "MODE_2a") @@ (255 :> "MODE_ff")

\* The mode the store is due after a report of code: the label of the
\* table, or the literal of a code the table does not have.
ModeDue(brand, code) ==
    IF code \in DOMAIN ModeTable(brand) THEN ModeTable(brand)[code]
    ELSE IF brand = "icom" THEN IcomLiteral[code]
    ELSE code

\* The mode updates among the events evs.
ModeUpdates(evs) == SelectSeq(evs, LAMBDA e : e.prop = "mode")

\* The report was delivered, in one chunk or in two; a CI-V frame cut
\* between its two preamble bytes is lost whatever it carries, and is not
\* counted.
ModeReportDelivered ==
    /\ pc = "done"
    /\ ~(config.brand = "icom" /\ cut = 1)

\* C30: a mode report whose code has no entry in the table of the active
\* dialect is not dropped: once the report is delivered, in one chunk or
\* two, the store holds the code character (text dialects) or MODE_ and
\* the code in hexadecimal (Icom) as its mode, and one update with that
\* value was produced; a code of the table gives its label.
C30_UnmappedModeStored ==
    ModeReportDelivered =>
        \A kind \in ModeKinds(config.brand) : \A code \in ModeCodes(config.brand) :
            frags = <<ModeReport(config.brand, kind, code)>> =>
                /\ state.mode = ModeDue(config.brand, code)
                /\ ModeUpdates(trace) = <<UpdateEvent("mode", ModeDue(config.brand, code))>>
                /\ buffer = EmptyBuffer(config.brand)

\* Kenwood MD8; arrived: 8 is not in the table and the mode is "8".
C30_Witness ==
    /\ config.brand = "kenwood"
    /\ pc = "done"
    /\ frags = <<"MD8;">>
    /\ state.mode = "8"
    /\ emitted = <<UpdateEvent("mode", "8")>>

\* CI-V 04 with mode 2A arrived: the mode is MODE_2a.
C30_IcomLiteral ==
    /\ config.brand = "icom"
    /\ pc = "done"
    /\ frags = << <<254, 254, 224, 148, 4, 42, 1, 253>> >>
    /\ state.mode = "MODE_2a"

----------------------------------------------------------------------------
(* Properties of the frames without a report (SpecShort).                  *)

\* The mode and PTT reports that end before their value.
ValueLess == {"MD0;", "MD;", "TX;"}

\* C31: a frame that is malformed, too short or of an unrecognized command
\* leaves RadioState as it was and sends no event: once it is delivered,
\* whole or in two chunks, the store is the one the stream found, no update
\* was produced and nothing was written to the subscriber.
C31_BadFramesAbsorbed ==
    pc = "done" =>
        /\ state = base
        /\ trace = <<>>
        /\ \A c \in Clients : sent[c] = <<>>

\* The same, for every CI-V frame and every text frame but the mode and
\* PTT reports without a value.
C31_ExceptValueLess ==
    (pc = "done" /\ (config.brand = "icom" \/ frags[1] \notin ValueLess)) =>
        /\ state = base
        /\ trace = <<>>
        /\ \A c \in Clients : sent[c] = <<>>

----------------------------------------------------------------------------
(* Still more properties of the codecs (SpecCodec).                        *)

\* The bytes parseResponse has been given so far.
Delivered == IF pc = "half" THEN SubSeq(Stream, 1, cut) ELSE Stream

\* The buffer holds no complete frame: no ';' for the text codecs; for
\* CI-V nothing, or a preamble and after it no terminator.
OnlyIncompleteTail ==
    IF protocol = "icom"
    THEN \/ buffer = <<>>
         \/ /\ Len(buffer) >= 2
            /\ buffer[1] = 254
            /\ buffer[2] = 254
            /\ \A i \in 3..Len(buffer) : buffer[i] # 253
    ELSE IndexOfChar(buffer, ";") = -1

\* C32: after every parseResponse call the receive buffer holds only an
\* incomplete trailing frame: it is the end of the bytes delivered so far;
\* for the text codecs it has no ';'; for the Icom codec it is empty or
\* begins with the preamble FE FE and has no terminator FD after it.
C32_BufferHoldsIncompleteTail ==
    (pc \in {"half", "done"}) =>
        /\ OnlyIncompleteTail
        /\ IsSuffix(buffer, Delivered)

\* A CI-V report was decoded, the unterminated frame behind it is kept,
\* and the stray bytes in front of a preamble were dropped.
C32_Witness ==
    /\ config.brand = "icom"
    /\ pc = "done"
    /\ buffer = <<254, 254, 224>>
    /\ Len(frags) = 2
    /\ frags[1] = <<1, 2>>

----------------------------------------------------------------------------
(* More properties of the life of the process (SpecLife).                  *)

\* The step changes the value of freq, mode or ptt.
FieldChanged ==
    \/ state'.freq # state.freq
    \/ state'.mode # state.mode
    \/ state'.ptt # state.ptt

\* C33 as claimed: lastUpdate changes exactly when one of freq, mode or
\* ptt changes value, and never decreases.
C33_LastUpdateExactlyOnChange ==
    [][/\ (state'.lastUpdate # state.lastUpdate) <=> FieldChanged
       /\ state'.lastUpdate >= state.lastUpdate
      ]_vars

\* C33 as amended: lastUpdate changes only in a step that changes freq,
\* mode or ptt; a handler of the running bridge that changes one of them
\* sets lastUpdate to the reading of the clock, which is its old value when
\* the change before was made at the same reading; the seeding of the
\* store at the start leaves it; it never decreases.
C33_LastUpdateMarksChanges ==
    [][/\ (state'.lastUpdate # state.lastUpdate) => FieldChanged
       /\ (FieldChanged /\ phase = "run") => state'.lastUpdate = now
       /\ state'.lastUpdate >= state.lastUpdate
      ]_vars

\* A decode changed mode and ptt at the clock reading 2 and marked it,
\* after the frequency had been marked at the reading 1.
C33_Witness ==
    /\ now = 2
    /\ state.lastUpdate = 2
    /\ Len(emitted) = 2
    /\ emitted[1].prop = "mode"
    /\ state.freq = "14074000"
    /\ state.connected

\* The values of the store a subscriber follows.
Followed(st) ==
    [connected |-> st.connected, freq |-> st.freq, mode |-> st.mode, ptt |-> st.ptt]

\* C34: no change is missed between a subscriber's snapshot and its
\* registration or after it: for every registered subscriber, the init
\* snapshot it was sent with the update events it was sent since applied
\* in order gives the current connected, freq, mode and ptt of RadioState.
C34_SubscriberViewIsStore ==
    \A c \in Members(sseClients) :
        /\ views[c] # <<>>
        /\ Followed(views[c][1]) = Followed(state)

\* The registered subscriber was sent a mode and a PTT update by the last
\* handler and holds, with them applied, the four values of the store.
C34_Witness ==
    /\ sseClients = <<1>>
    /\ config.brand = "kenwood"
    /\ Len(emitted) = 2
    /\ sent[1] = emitted
    /\ Followed(views[1][1]) =
          [connected |-> TRUE, freq |-> "14074000", mode |-> "CW", ptt |-> TRUE]

\* C35: in every reachable state at most one poll timer is active and at
\* most one reconnect timer is pending; a poll timer is active only while
\* the current port is open, and it is the one pollTimer holds; no
\* reconnect is pending while the current port is opening or open. (The
\* bridge holds its port in the one variable serialPort, which reconnect
\* clears before initSerial creates the next port.)
C35_OnePortOneTimer ==
    /\ Cardinality(liveTimers) <= 1
    /\ reconnectTimers <= 1
    /\ liveTimers # {} => (serialPort = "open" /\ liveTimers = {pollTimer})
    /\ serialPort \in {"opening", "open"} => reconnectTimers = 0
    /\ reconnectTimers = 1 => serialPort \in {"failed", "closed"}

\* The port has just opened again: a frequency was decoded while it was
\* open before, it closed, the reconnect timer fired, and the new open
\* started the one poll interval.
C35_Witness ==
    /\ serialPort = "open"
    /\ liveTimers = {pollTimer}
    /\ reconnectTimers = 0
    /\ state.freq = "14074000"
    /\ config.brand = "icom"
    /\ emitted = <<UpdateEvent("connected", TRUE)>>

\* A POST /ptt that does not ask for PTT on was served with PTT disabled
\* while the port was open.
PttOffWhileDisabled ==
    /\ http.path = "/ptt"
    /\ ~config.pttEnabled
    /\ ~(http.body.parsed /\ Truthy(http.body.ptt))
    /\ serialPort = "open"

C37_ConnectedWhilePolling ==
    (serialPort = "open" /\ pollTimer \in liveTimers) => state.connected

\* Once the store says disconnected while the port is open, it says so
\* for as long as the port stays open.
C37_StaysDisconnected ==
    [][(serialPort = "open" /\ ~state.connected /\ serialPort' = "open")
          => ~state'.connected]_vars

----------------------------------------------------------------------------
(* More properties of the bridge (Spec).                                   *)

\* C38: each time the port (re)enters open, decoding starts from an empty
\* receive buffer, so that bytes of an incomplete frame buffered before a
\* disconnect are not combined with bytes received after the reconnect.
C38_OpenStartsWithEmptyBuffer ==
    [][(serialPort # "open" /\ serialPort' = "open")
          => buffer' = EmptyBuffer(protocol)]_vars

----------------------------------------------------------------------------
(* The mode commands alone: with the port open, POST /mode is asked for    *)
(* each label of the active dialect's table, as written and in lower case. *)

\* The labels of a mode table.
Labels(table) == {table[c] : c \in DOMAIN table}

\* The bodies of POST /mode that name a label of the dialect's table.
LabelBodies(brand) ==
    {Body(TRUE, "undefined", v, "undefined") :
        v \in Labels(ModeTable(brand))
              \cup {ToLowerCase(l) : l \in Labels(ModeTable(brand))}}

ModeCmdNext ==
    \/ Main("ok")
    \/ OpenOk
    \/ \E body \in LabelBodies(protocol) : PostMode(body)

SpecModeCmd == Init /\ [][ModeCmdNext]_vars

----------------------------------------------------------------------------
(* Properties of the mode commands (SpecModeCmd).                          *)

\* POST /mode for a label of the table was served while the port was open.
LabelServed ==
    /\ http.path = "/mode"
    /\ http.body.parsed
    /\ IsLabel(protocol, http.body.mode)
    /\ serialPort = "open"

\* The set-mode frame of a dialect for the code c.
ModeFrame(brand, c) ==
    IF brand = "yaesu" THEN "MD0" \o c \o ";"
    ELSE IF brand = "kenwood" THEN "MD" \o c \o ";"
    ELSE <<254, 254, civAddr, controllerAddr, 6, c, 1, 253>>

\* The mode the dialect's parseResponse stores for a report of kind kind
\* that carries the code c.
DecodedMode(brand, kind, c) ==
    ParseResponse(brand, EmptyBuffer(brand), [st |-> InitialState, ev |-> <<>>],
                  ModeReport(brand, kind, c)).acc.st.mode

\* C39: each dialect's mode table is a bijection between codes and labels:
\* for every label of the table, given as written or in lower case,
\* setModeCmd yields the frame that carries the one code of that label,
\* and the dialect's decoder maps a report with that code to the label.
C39_ModeTableBijection ==
    LabelServed =>
        LET label == ToUpperCase(http.body.mode)
            codes == {c \in DOMAIN ModeTable(protocol) : ModeTable(protocol)[c] = label}
        IN  /\ Cardinality(codes) = 1
            /\ \A c \in codes :
                  /\ wrote = <<ModeFrame(protocol, c)>>
                  /\ \A kind \in ModeKinds(protocol) :
                        DecodedMode(protocol, kind, c) = label

\* The Icom label of the code 0 was asked for in lower case and the frame
\* with the code byte 0 written.
C39_Witness ==
    /\ LabelServed
    /\ config.brand = "icom"
    /\ http.body.mode = "lsb"
    /\ Len(wrote) = 1
    /\ wrote[1][6] = 0

====
